---------------------------- MODULE Spec2Model ----------------------------
(***************************************************************************)
(* A model of the gmail-todo-agent: the rule engine, the per-email         *)
(* processing pipeline (processEmail), the mail provider's label store and *)
(* label-name cache, and the batch scheduler.                               *)
(*                                                                         *)
(* A JavaScript string is a TLA+ string; Chars gives its characters, so     *)
(* that toLowerCase and includes are computed rather than assumed.         *)
(***************************************************************************)
EXTENDS Integers, Sequences, FiniteSets, TLC

\* ------------------------------------------------------------------ bounds
\* processEmail calls (and direct processEmailWithRules calls) issued in one run
MaxCalls == 2
\* processEmailWithRules calls per run of the rule-engine specification
MaxRuleCalls == 2
\* runBatchProcessing calls per run of the scheduler specification
MaxRuns == 2
\* runBatchProcessing calls past the guard at one time
MaxCycles == 2
\* live interval timers
MaxTimers == 2
\* direct classifyEmail calls per run of the classifier specification
MaxClassifyCalls == 2

\* ----------------------------------------------------------------- strings
\* The characters of each string the model uses.
Chars(s) ==
  CASE s = "nishantattrey07@gmail.com" -> <<"n","i","s","h","a","n","t","a","t","t","r","e","y","0","7","@","g","m","a","i","l",".","c","o","m">>
    [] s = "urgent" -> <<"u","r","g","e","n","t">>
    [] s = "asap" -> <<"a","s","a","p">>
    [] s = "immediately" -> <<"i","m","m","e","d","i","a","t","e","l","y">>
    [] s = "deadline" -> <<"d","e","a","d","l","i","n","e">>
    [] s = "by today" -> <<"b","y"," ","t","o","d","a","y">>
    [] s = "by tomorrow" -> <<"b","y"," ","t","o","m","o","r","r","o","w">>
    [] s = "meeting" -> <<"m","e","e","t","i","n","g">>
    [] s = "call" -> <<"c","a","l","l">>
    [] s = "zoom" -> <<"z","o","o","m">>
    [] s = "teams" -> <<"t","e","a","m","s">>
    [] s = "conference" -> <<"c","o","n","f","e","r","e","n","c","e">>
    [] s = "calendar" -> <<"c","a","l","e","n","d","a","r">>
    [] s = "appointment" -> <<"a","p","p","o","i","n","t","m","e","n","t">>
    [] s = "schedule" -> <<"s","c","h","e","d","u","l","e">>
    [] s = "invited you to" -> <<"i","n","v","i","t","e","d"," ","y","o","u"," ","t","o">>
    [] s = "join the meeting" -> <<"j","o","i","n"," ","t","h","e"," ","m","e","e","t","i","n","g">>
    [] s = "by end of day" -> <<"b","y"," ","e","n","d"," ","o","f"," ","d","a","y">>
    [] s = "by eod" -> <<"b","y"," ","e","o","d">>
    [] s = "this week" -> <<"t","h","i","s"," ","w","e","e","k">>
    [] s = "next week" -> <<"n","e","x","t"," ","w","e","e","k">>
    [] s = "due date" -> <<"d","u","e"," ","d","a","t","e">>
    [] s = "time sensitive" -> <<"t","i","m","e"," ","s","e","n","s","i","t","i","v","e">>
    [] s = "urgent response needed" -> <<"u","r","g","e","n","t"," ","r","e","s","p","o","n","s","e"," ","n","e","e","d","e","d">>
    [] s = "please review" -> <<"p","l","e","a","s","e"," ","r","e","v","i","e","w">>
    [] s = "please approve" -> <<"p","l","e","a","s","e"," ","a","p","p","r","o","v","e">>
    [] s = "please sign" -> <<"p","l","e","a","s","e"," ","s","i","g","n">>
    [] s = "please check" -> <<"p","l","e","a","s","e"," ","c","h","e","c","k">>
    [] s = "can you" -> <<"c","a","n"," ","y","o","u">>
    [] s = "could you" -> <<"c","o","u","l","d"," ","y","o","u">>
    [] s = "would you mind" -> <<"w","o","u","l","d"," ","y","o","u"," ","m","i","n","d">>
    [] s = "need you to" -> <<"n","e","e","d"," ","y","o","u"," ","t","o">>
    [] s = "action required" -> <<"a","c","t","i","o","n"," ","r","e","q","u","i","r","e","d">>
    [] s = "your input needed" -> <<"y","o","u","r"," ","i","n","p","u","t"," ","n","e","e","d","e","d">>
    [] s = "waiting for your" -> <<"w","a","i","t","i","n","g"," ","f","o","r"," ","y","o","u","r">>
    [] s = "noreply@" -> <<"n","o","r","e","p","l","y","@">>
    [] s = "no-reply@" -> <<"n","o","-","r","e","p","l","y","@">>
    [] s = "marketing@" -> <<"m","a","r","k","e","t","i","n","g","@">>
    [] s = "newsletter@" -> <<"n","e","w","s","l","e","t","t","e","r","@">>
    [] s = "notifications@" -> <<"n","o","t","i","f","i","c","a","t","i","o","n","s","@">>
    [] s = "newsletter" -> <<"n","e","w","s","l","e","t","t","e","r">>
    [] s = "promotion" -> <<"p","r","o","m","o","t","i","o","n">>
    [] s = "sale" -> <<"s","a","l","e">>
    [] s = "offer" -> <<"o","f","f","e","r">>
    [] s = "digest" -> <<"d","i","g","e","s","t">>
    [] s = "tips" -> <<"t","i","p","s">>
    [] s = "update" -> <<"u","p","d","a","t","e">>
    [] s = "unsubscribe" -> <<"u","n","s","u","b","s","c","r","i","b","e">>
    [] s = "marketing" -> <<"m","a","r","k","e","t","i","n","g">>
    [] s = "promotional" -> <<"p","r","o","m","o","t","i","o","n","a","l">>
    [] s = "advertisement" -> <<"a","d","v","e","r","t","i","s","e","m","e","n","t">>
    [] s = "daily digest" -> <<"d","a","i","l","y"," ","d","i","g","e","s","t">>
    [] s = "weekly digest" -> <<"w","e","e","k","l","y"," ","d","i","g","e","s","t">>
    [] s = "no-reply@todoist.com" -> <<"n","o","-","r","e","p","l","y","@","t","o","d","o","i","s","t",".","c","o","m">>
    [] s = "noreply@todoist.com" -> <<"n","o","r","e","p","l","y","@","t","o","d","o","i","s","t",".","c","o","m">>
    [] s = "todoist.com" -> <<"t","o","d","o","i","s","t",".","c","o","m">>
    [] s = "notion.so" -> <<"n","o","t","i","o","n",".","s","o">>
    [] s = "slack.com" -> <<"s","l","a","c","k",".","c","o","m">>
    [] s = "asana.com" -> <<"a","s","a","n","a",".","c","o","m">>
    [] s = "trello.com" -> <<"t","r","e","l","l","o",".","c","o","m">>
    [] s = "monday.com" -> <<"m","o","n","d","a","y",".","c","o","m">>
    [] s = "summary" -> <<"s","u","m","m","a","r","y">>
    [] s = "tip" -> <<"t","i","p">>
    [] s = "reminder" -> <<"r","e","m","i","n","d","e","r">>
    [] s = "your tasks" -> <<"y","o","u","r"," ","t","a","s","k","s">>
    [] s = "daily" -> <<"d","a","i","l","y">>
    [] s = "weekly" -> <<"w","e","e","k","l","y">>
    [] s = "task summary" -> <<"t","a","s","k"," ","s","u","m","m","a","r","y">>
    [] s = "productivity tip" -> <<"p","r","o","d","u","c","t","i","v","i","t","y"," ","t","i","p">>
    [] s = "your tasks for" -> <<"y","o","u","r"," ","t","a","s","k","s"," ","f","o","r">>
    [] s = "alerts@" -> <<"a","l","e","r","t","s","@">>
    [] s = "system@" -> <<"s","y","s","t","e","m","@">>
    [] s = "support@" -> <<"s","u","p","p","o","r","t","@">>
    [] s = "notification" -> <<"n","o","t","i","f","i","c","a","t","i","o","n">>
    [] s = "alert" -> <<"a","l","e","r","t">>
    [] s = "system update" -> <<"s","y","s","t","e","m"," ","u","p","d","a","t","e">>
    [] s = "new login" -> <<"n","e","w"," ","l","o","g","i","n">>
    [] s = "login detected" -> <<"l","o","g","i","n"," ","d","e","t","e","c","t","e","d">>
    [] s = "sign in" -> <<"s","i","g","n"," ","i","n">>
    [] s = "security alert" -> <<"s","e","c","u","r","i","t","y"," ","a","l","e","r","t">>
    [] s = "password changed" -> <<"p","a","s","s","w","o","r","d"," ","c","h","a","n","g","e","d">>
    [] s = "account access" -> <<"a","c","c","o","u","n","t"," ","a","c","c","e","s","s">>
    [] s = "new login to your" -> <<"n","e","w"," ","l","o","g","i","n"," ","t","o"," ","y","o","u","r">>
    [] s = "noticed a new login" -> <<"n","o","t","i","c","e","d"," ","a"," ","n","e","w"," ","l","o","g","i","n">>
    [] s = "login to your account" -> <<"l","o","g","i","n"," ","t","o"," ","y","o","u","r"," ","a","c","c","o","u","n","t">>
    [] s = "signed in to" -> <<"s","i","g","n","e","d"," ","i","n"," ","t","o">>
    [] s = "accessed your account" -> <<"a","c","c","e","s","s","e","d"," ","y","o","u","r"," ","a","c","c","o","u","n","t">>
    [] s = "login notification" -> <<"l","o","g","i","n"," ","n","o","t","i","f","i","c","a","t","i","o","n">>
    [] s = "security notification" -> <<"s","e","c","u","r","i","t","y"," ","n","o","t","i","f","i","c","a","t","i","o","n">>
    [] s = "account activity" -> <<"a","c","c","o","u","n","t"," ","a","c","t","i","v","i","t","y">>
    [] s = "facebook.com" -> <<"f","a","c","e","b","o","o","k",".","c","o","m">>
    [] s = "twitter.com" -> <<"t","w","i","t","t","e","r",".","c","o","m">>
    [] s = "linkedin.com" -> <<"l","i","n","k","e","d","i","n",".","c","o","m">>
    [] s = "instagram.com" -> <<"i","n","s","t","a","g","r","a","m",".","c","o","m">>
    [] s = "pinterest.com" -> <<"p","i","n","t","e","r","e","s","t",".","c","o","m">>
    [] s = "youtube.com" -> <<"y","o","u","t","u","b","e",".","c","o","m">>
    [] s = "tiktok.com" -> <<"t","i","k","t","o","k",".","c","o","m">>
    [] s = "mentioned you" -> <<"m","e","n","t","i","o","n","e","d"," ","y","o","u">>
    [] s = "tagged you" -> <<"t","a","g","g","e","d"," ","y","o","u">>
    [] s = "liked your" -> <<"l","i","k","e","d"," ","y","o","u","r">>
    [] s = "noreply" -> <<"n","o","r","e","p","l","y">>
    [] s = "no-reply" -> <<"n","o","-","r","e","p","l","y">>
    [] s = "donotreply" -> <<"d","o","n","o","t","r","e","p","l","y">>
    [] s = "do-not-reply" -> <<"d","o","-","n","o","t","-","r","e","p","l","y">>
    [] s = "automated" -> <<"a","u","t","o","m","a","t","e","d">>
    [] s = "system" -> <<"s","y","s","t","e","m">>
    [] s = "github.com" -> <<"g","i","t","h","u","b",".","c","o","m">>
    [] s = "ann@corp.io" -> <<"a","n","n","@","c","o","r","p",".","i","o">>
    [] s = "Lunch" -> <<"L","u","n","c","h">>
    [] s = "see you at noon" -> <<"s","e","e"," ","y","o","u"," ","a","t"," ","n","o","o","n">>
    [] s = "noreply@newsletter.example" -> <<"n","o","r","e","p","l","y","@","n","e","w","s","l","e","t","t","e","r",".","e","x","a","m","p","l","e">>
    [] s = "Weekly Digest" -> <<"W","e","e","k","l","y"," ","D","i","g","e","s","t">>
    [] s = "Bob <bob@corp.io>" -> <<"B","o","b"," ","<","b","o","b","@","c","o","r","p",".","i","o",">">>
    [] s = "Report" -> <<"R","e","p","o","r","t">>
    [] s = "Please review it" -> <<"P","l","e","a","s","e"," ","r","e","v","i","e","w"," ","i","t">>
    [] s = "ci@github.com" -> <<"c","i","@","g","i","t","h","u","b",".","c","o","m">>
    [] s = "Build" -> <<"B","u","i","l","d">>
    [] s = "done" -> <<"d","o","n","e">>
    [] s = "a@b" -> <<"a","@","b">>
    [] s = "B" -> <<"B">>
    [] s = "s" -> <<"s">>
    [] s = "t" -> <<"t">>
    [] s = "Sx" -> <<"S","x">>
    [] s = "" -> <<>>
    [] s = "k" -> <<"k">>
    [] s = "Kx" -> <<"K","x">>
    [] s = "K" -> <<"K">>
    [] s = "x" -> <<"x">>
    [] s = "A" -> <<"A">>
    [] s = "S" -> <<"S">>
    [] s = "X" -> <<"X">>
    [] s = "re:" -> <<"r","e",":">>
    [] s = "fw:" -> <<"f","w",":">>
    [] s = "fwd:" -> <<"f","w","d",":">>
    [] s = " (from " -> <<" ","(","f","r","o","m"," ">>
    [] s = ")" -> <<")">>
    [] s = "Email from " -> <<"E","m","a","i","l"," ","f","r","o","m"," ">>
    [] s = "Call Bob" -> <<"C","a","l","l"," ","B","o","b">>
    [] s = "d" -> <<"d">>
    [] s = "tomorrow" -> <<"t","o","m","o","r","r","o","w">>
    [] s = "important" -> <<"i","m","p","o","r","t","a","n","t">>
    [] s = "critical" -> <<"c","r","i","t","i","c","a","l">>
    [] s = "needed by" -> <<"n","e","e","d","e","d"," ","b","y">>
    [] s = "by" -> <<"b","y">>
    [] s = "due" -> <<"d","u","e">>
    [] s = "end" -> <<"e","n","d">>
    [] s = "of" -> <<"o","f">>
    [] s = "today" -> <<"t","o","d","a","y">>
    [] s = "day" -> <<"d","a","y">>
    [] s = "week" -> <<"w","e","e","k">>
    [] s = "month" -> <<"m","o","n","t","h">>
    [] s = "next" -> <<"n","e","x","t">>
    [] s = "this" -> <<"t","h","i","s">>
    [] s = "monday" -> <<"m","o","n","d","a","y">>
    [] s = "tuesday" -> <<"t","u","e","s","d","a","y">>
    [] s = "wednesday" -> <<"w","e","d","n","e","s","d","a","y">>
    [] s = "thursday" -> <<"t","h","u","r","s","d","a","y">>
    [] s = "friday" -> <<"f","r","i","d","a","y">>
    [] s = "saturday" -> <<"s","a","t","u","r","d","a","y">>
    [] s = "sunday" -> <<"s","u","n","d","a","y">>
    [] s = "end of " -> <<"e","n","d"," ","o","f"," ">>
    [] s = " " -> <<" ">>
    [] s = "\n\nFrom: " -> <<"\n","\n","F","r","o","m",":"," ">>
    [] s = "\nReceived: " -> <<"\n","R","e","c","e","i","v","e","d",":"," ">>
    [] s = "2024-01-01" -> <<"2","0","2","4","-","0","1","-","0","1">>
    [] s = "email-todo" -> <<"e","m","a","i","l","-","t","o","d","o">>
    [] s = "1704067200000" -> <<"1","7","0","4","0","6","7","2","0","0","0","0","0">>

UpperChars == <<"A","B","C","D","E","F","G","H","I","J","K","L","M","N","O","P","Q","R","S","T","U","V","W","X","Y","Z">>
LowerChars == <<"a","b","c","d","e","f","g","h","i","j","k","l","m","n","o","p","q","r","s","t","u","v","w","x","y","z">>

\* String.prototype.toLowerCase, one character
LowerChar(ch) ==
  IF \E i \in DOMAIN UpperChars : UpperChars[i] = ch
  THEN LowerChars[CHOOSE i \in DOMAIN UpperChars : UpperChars[i] = ch]
  ELSE ch

\* String.prototype.toLowerCase, on the characters of a string
toLowerCase(s) == [i \in DOMAIN s |-> LowerChar(s[i])]
\* the lower-cased characters of a string
Lower(str) == toLowerCase(Chars(str))

\* String.prototype.includes: k occurs in s as a contiguous substring
includes(s, k) ==
  \E i \in 0..(Len(s) - Len(k)) : \A j \in 1..Len(k) : s[i + j] = k[j]

\* Array.prototype.some over a list of keywords
\* text.toLowerCase().includes(keyword.toLowerCase())
LowerIncludes(text, keyword) == includes(Lower(text), Lower(keyword))

some(list, P(_)) == \E i \in DOMAIN list : P(list[i])

\* String.prototype.trim, and the \s of a regular expression
IsSpace(ch) == ch \in {" ", "\t", "\n"}

RECURSIVE trimStart(_)
trimStart(s) == IF s # <<>> /\ IsSpace(Head(s)) THEN trimStart(Tail(s)) ELSE s

RECURSIVE trimEnd(_)
trimEnd(s) ==
  IF s # <<>> /\ IsSpace(s[Len(s)]) THEN trimEnd(SubSeq(s, 1, Len(s) - 1)) ELSE s

trim(s) == trimEnd(trimStart(s))

startsWith(s, k) == Len(k) <= Len(s) /\ SubSeq(s, 1, Len(k)) = k

\* s.replace(/^(re:|fwd?:)\s*/i, ''): a leading "re:", "fw:" or "fwd:" in any
\* case, and the white space after it, is removed
ReplyPrefixes == <<"re:", "fw:", "fwd:">>

stripReplyPrefix(s) ==
  LET hits == {i \in DOMAIN ReplyPrefixes :
                 startsWith(toLowerCase(s), Chars(ReplyPrefixes[i]))}
  IN  IF hits = {} THEN s
      ELSE trimStart(SubSeq(s, Len(Chars(ReplyPrefixes[CHOOSE i \in hits : TRUE])) + 1,
                            Len(s)))

\* s.split(ch)[0]: what stands before the first ch
BeforeFirst(s, ch) ==
  LET hits == {i \in DOMAIN s : s[i] = ch}
  IN  IF hits = {} THEN s
      ELSE SubSeq(s, 1, (CHOOSE i \in hits : \A j \in hits : i <= j) - 1)

\* email.from.split('<')[0].trim() || email.from
senderName(from) ==
  IF trim(BeforeFirst(from, "<")) # <<>> THEN trim(BeforeFirst(from, "<")) ELSE from

\* `${subject} (from ${fromName})`, or `Email from ${fromName}` without a subject
titleFrom(subject, fromName) ==
  IF Len(subject) > 0 THEN subject \o Chars(" (from ") \o fromName \o Chars(")")
                      ELSE Chars("Email from ") \o fromName

\* ------------------------------------------------------------------ labels
StateLabels == {"TodoAgent_Processed", "TodoAgent_Skip", "TodoAgent_Failed"}
actionLabels == <<"TodoAgent_Important", "TodoAgent_Urgent", "TodoAgent_Meeting", "TodoAgent_Task">>
ActionLabelSet == {actionLabels[i] : i \in DOMAIN actionLabels}
LabelNames == StateLabels \cup ActionLabelSet

\* The provider refers to a label by an id, which differs from its name.
LabelIdOf(name) ==
  CASE name = "TodoAgent_Processed" -> "Label_1"
    [] name = "TodoAgent_Skip"      -> "Label_2"
    [] name = "TodoAgent_Failed"    -> "Label_3"
    [] name = "TodoAgent_Important" -> "Label_4"
    [] name = "TodoAgent_Urgent"    -> "Label_5"
    [] name = "TodoAgent_Meeting"   -> "Label_6"
    [] name = "TodoAgent_Task"      -> "Label_7"
    [] OTHER                        -> "Label_0"
LabelIds == {LabelIdOf(n) : n \in LabelNames}

\* What GMAIL_LIST_LABELS returns: the account holds every TodoAgent label.
GmailLabelList == {[id |-> LabelIdOf(n), name |-> n] : n \in LabelNames}

\* ------------------------------------------------------------- rule engine
NoCriteria == [from |-> <<>>, fromDomain |-> <<>>, subject |-> <<>>,
               bodyKeywords |-> <<>>, excludeKeywords |-> <<>>]

\* loadDefaultRules: the rule list the engine starts with
loadDefaultRules ==
  <<
    [ id |-> "boss-urgent", priority |-> 10, active |-> TRUE,
      criteria |-> [ from |-> <<"nishantattrey07@gmail.com">>,
                     fromDomain |-> <<>>,
                     subject |-> <<>>,
                     bodyKeywords |-> <<"urgent", "asap", "immediately", "deadline", "by today", "by tomorrow">>,
                     excludeKeywords |-> <<>> ],
      actions |-> [ label |-> "TodoAgent_Important", skipAI |-> FALSE ],
      matched |-> 0 ],
    [ id |-> "meeting-invites", priority |-> 9, active |-> TRUE,
      criteria |-> [ from |-> <<>>,
                     fromDomain |-> <<>>,
                     subject |-> <<"meeting", "call", "zoom", "teams", "conference">>,
                     bodyKeywords |-> <<"calendar", "appointment", "schedule", "invited you to",
                                        "join the meeting">>,
                     excludeKeywords |-> <<>> ],
      actions |-> [ label |-> "TodoAgent_Meeting", skipAI |-> FALSE ],
      matched |-> 0 ],
    [ id |-> "temporal-urgency", priority |-> 8, active |-> TRUE,
      criteria |-> [ from |-> <<>>,
                     fromDomain |-> <<>>,
                     subject |-> <<>>,
                     bodyKeywords |-> <<"by end of day", "by eod", "by tomorrow", "by today", "this week",
                                        "next week", "deadline", "due date", "time sensitive",
                                        "urgent response needed">>,
                     excludeKeywords |-> <<>> ],
      actions |-> [ label |-> "TodoAgent_Urgent", skipAI |-> FALSE ],
      matched |-> 0 ],
    [ id |-> "action-verbs", priority |-> 7, active |-> TRUE,
      criteria |-> [ from |-> <<>>,
                     fromDomain |-> <<>>,
                     subject |-> <<>>,
                     bodyKeywords |-> <<"please review", "please approve", "please sign", "please check",
                                        "can you", "could you", "would you mind", "need you to",
                                        "action required", "your input needed", "waiting for your">>,
                     excludeKeywords |-> <<>> ],
      actions |-> [ label |-> "TodoAgent_Task", skipAI |-> FALSE ],
      matched |-> 0 ],
    [ id |-> "vip-senders", priority |-> 8, active |-> TRUE,
      criteria |-> [ from |-> <<"nishantattrey07@gmail.com">>,
                     fromDomain |-> <<>>,
                     subject |-> <<>>,
                     bodyKeywords |-> <<>>,
                     excludeKeywords |-> <<>> ],
      actions |-> [ label |-> "TodoAgent_Important", skipAI |-> FALSE ],
      matched |-> 0 ],
    [ id |-> "newsletters-skip", priority |-> 10, active |-> TRUE,
      criteria |-> [ from |-> <<"noreply@", "no-reply@", "marketing@", "newsletter@", "notifications@">>,
                     fromDomain |-> <<>>,
                     subject |-> <<"newsletter", "promotion", "sale", "offer", "digest", "tips", "update">>,
                     bodyKeywords |-> <<"unsubscribe", "marketing", "promotional", "advertisement",
                                        "daily digest", "weekly digest">>,
                     excludeKeywords |-> <<>> ],
      actions |-> [ label |-> "TodoAgent_Skip", skipAI |-> TRUE ],
      matched |-> 0 ],
    [ id |-> "productivity-app-notifications", priority |-> 10, active |-> TRUE,
      criteria |-> [ from |-> <<"no-reply@todoist.com", "noreply@todoist.com">>,
                     fromDomain |-> <<"todoist.com", "notion.so", "slack.com", "asana.com", "trello.com",
                                      "monday.com">>,
                     subject |-> <<"digest", "summary", "tip", "reminder", "your tasks", "daily",
                                   "weekly">>,
                     bodyKeywords |-> <<"daily digest", "weekly digest", "task summary", "productivity tip",
                                        "your tasks for", "unsubscribe">>,
                     excludeKeywords |-> <<>> ],
      actions |-> [ label |-> "TodoAgent_Skip", skipAI |-> TRUE ],
      matched |-> 0 ],
    [ id |-> "automated-notifications", priority |-> 9, active |-> TRUE,
      criteria |-> [ from |-> <<"notifications@", "alerts@", "system@", "support@">>,
                     fromDomain |-> <<>>,
                     subject |-> <<"notification", "alert", "reminder", "system update">>,
                     bodyKeywords |-> <<>>,
                     excludeKeywords |-> <<>> ],
      actions |-> [ label |-> "TodoAgent_Skip", skipAI |-> TRUE ],
      matched |-> 0 ],
    [ id |-> "security-login-notifications", priority |-> 10, active |-> TRUE,
      criteria |-> [ from |-> <<>>,
                     fromDomain |-> <<>>,
                     subject |-> <<"new login", "login detected", "sign in", "security alert",
                                   "password changed", "account access">>,
                     bodyKeywords |-> <<"new login to your", "login detected", "sign in", "security alert",
                                        "password changed", "account access", "noticed a new login",
                                        "login to your account", "signed in to", "accessed your account",
                                        "login notification", "security notification", "account activity">>,
                     excludeKeywords |-> <<>> ],
      actions |-> [ label |-> "TodoAgent_Skip", skipAI |-> TRUE ],
      matched |-> 0 ],
    [ id |-> "social-media-skip", priority |-> 6, active |-> TRUE,
      criteria |-> [ from |-> <<>>,
                     fromDomain |-> <<"facebook.com", "twitter.com", "linkedin.com", "instagram.com",
                                      "pinterest.com", "youtube.com", "tiktok.com">>,
                     subject |-> <<"notification", "mentioned you", "tagged you", "liked your">>,
                     bodyKeywords |-> <<>>,
                     excludeKeywords |-> <<>> ],
      actions |-> [ label |-> "TodoAgent_Skip", skipAI |-> TRUE ],
      matched |-> 0 ]
  >>

\* the keyword denylist of shouldSkipEmail
skipKeywords ==
  <<"noreply", "no-reply", "donotreply", "do-not-reply", "newsletter", "unsubscribe", "marketing",
    "automated", "system", "notification", "github.com", "linkedin.com", "facebook.com">>

\* extractDomain of the rule engine: the regular expression /@([^>]+)/ finds the
\* leftmost '@' followed by a character other than '>' and captures the longest
\* run of such characters; no match gives the empty string.
RECURSIVE RunNotGt(_, _)
RunNotGt(s, i) ==
  IF i > Len(s) \/ s[i] = ">" THEN <<>> ELSE <<s[i]>> \o RunNotGt(s, i + 1)

extractDomain(email) ==
  LET starts == {i \in 1..(Len(email) - 1) : email[i] = "@" /\ email[i + 1] # ">"}
  IN  IF starts = {} THEN <<>>
      ELSE LET i == CHOOSE x \in starts : \A y \in starts : x <= y
           IN  toLowerCase(RunNotGt(email, i + 1))

\* A confidence is the quotient num/den of two small naturals.
Confidence(num, den) == [num |-> num, den |-> den]
ZeroConfidence == Confidence(0, 1)
\* confidence >= 0.5
AtLeastHalf_Strict(c) == 2 * c.num > c.den
AtLeastHalf(c) == 2 * c.num >= c.den

NoRule == "undefined"

\* list.some(keyword => text.toLowerCase().includes(keyword.toLowerCase())), for
\* some text of texts
occursIn(list, texts) ==
  some(list, LAMBDA keyword : \E text \in texts : LowerIncludes(text, keyword))

\* evaluateRule: a criterion is declared when its list is present and not empty
Declared(list) == Len(list) > 0

\* evaluateRule, lines 736-745: some sender occurs in the From header
fromMatches(email, c) == occursIn(c.from, {email.from})

\* evaluateRule, lines 748-757: some domain occurs in the sender's domain
fromDomainMatches(email, c) ==
  some(c.fromDomain,
       LAMBDA domain : includes(extractDomain(Chars(email.from)), Lower(domain)))

\* evaluateRule, lines 760-768: some keyword occurs in the subject
subjectMatches(email, c) == occursIn(c.subject, {email.subject})

\* evaluateRule, lines 771-782: some keyword occurs in the body or the snippet
bodyKeywordsMatch(email, c) == occursIn(c.bodyKeywords, {email.body, email.snippet})

\* evaluateRule, lines 785-795: some exclude keyword occurs in the body, the
\* snippet or the subject
hasExcludeKeyword_BodyOnly(email, c) == occursIn(c.excludeKeywords, {email.body})
hasExcludeKeyword(email, c) ==
  occursIn(c.excludeKeywords, {email.body, email.snippet, email.subject})

\* evaluateRule, lines 797-816: the result, given the number of declared
\* criteria, the names of the satisfied ones (matchedCount is their number: the
\* two are updated together) and whether an exclude keyword occurred
evaluation(totalCriteria, matchedCriteria, excluded) ==
  LET matchedCount == Len(matchedCriteria)
      confidence == IF totalCriteria > 0 THEN Confidence(matchedCount, totalCriteria)
                                         ELSE ZeroConfidence
      matched == AtLeastHalf(confidence) /\ matchedCount > 0
  IN  IF excluded
      THEN [matched |-> FALSE, confidence |-> ZeroConfidence, matchedCriteria |-> <<>>]
      ELSE [matched |-> matched, confidence |-> confidence,
            matchedCriteria |-> matchedCriteria]

Count(declared) == IF declared THEN 1 ELSE 0
Pushed(ok, name) == IF ok THEN <<name>> ELSE <<>>

\* evaluateRule, lines 731-816: the criteria of one rule against the text of one
\* email. The result lacks only the rule itself, which evaluateRule adds.
evaluateCriteria(email, c) ==
  evaluation(
    Count(Declared(c.from)) + Count(Declared(c.fromDomain))
      + Count(Declared(c.subject)) + Count(Declared(c.bodyKeywords)),
    Pushed(Declared(c.from) /\ fromMatches(email, c), "from")
      \o Pushed(Declared(c.fromDomain) /\ fromDomainMatches(email, c), "fromDomain")
      \o Pushed(Declared(c.subject) /\ subjectMatches(email, c), "subject")
      \o Pushed(Declared(c.bodyKeywords) /\ bodyKeywordsMatch(email, c), "bodyKeywords"),
    Declared(c.excludeKeywords) /\ hasExcludeKeyword(email, c))

\* ------------------------------------------------------------ the inputs
\* Four messages: one no rule matches and no denylist keyword occurs in, one the
\* newsletter rule matches, one the action-verbs rule matches, and one that only
\* the denylist of the basic classification matches.
PlainMail ==
  [from |-> "ann@corp.io", subject |-> "Lunch",
   body |-> "see you at noon", snippet |-> "see you at noon"]
NewsletterMail ==
  [from |-> "noreply@newsletter.example", subject |-> "Weekly Digest",
   body |-> "unsubscribe", snippet |-> "unsubscribe"]
ReviewMail ==
  [from |-> "Bob <bob@corp.io>", subject |-> "Report",
   body |-> "Please review it", snippet |-> "Please review it"]
GithubMail ==
  [from |-> "ci@github.com", subject |-> "Build",
   body |-> "done", snippet |-> "done"]

\* Short texts and short criteria, for exploring evaluateRule exhaustively: the
\* sender with and without a domain, keywords in either case, the body keyword in
\* the body or only in the snippet, the exclude keyword in each of the three fields.
SmallMails ==
  [from : {"a@b", "B"},
   subject : {"s", "t", "Sx"},
   body : {"", "Kx"},
   snippet : {"", "K", "x"}]

SmallCriteria ==
  [from : {<<>>, <<"A">>},
   fromDomain : {<<>>, <<"B">>},
   subject : {<<>>, <<"S">>},
   bodyKeywords : {<<>>, <<"K">>},
   excludeKeywords : {<<>>, <<"X">>}]

KnownMails == {PlainMail, NewsletterMail, ReviewMail, GithubMail} \cup SmallMails
KnownCriteria ==
  {loadDefaultRules[i].criteria : i \in DOMAIN loadDefaultRules} \cup SmallCriteria

\* The text of an email, as evaluateRule and shouldSkipEmail read it.
TextOf(email) == [from |-> email.from, subject |-> email.subject,
                  body |-> email.body, snippet |-> email.snippet]

\* A function as an explicit table of its values (f @@ <<>> equals f).
Tabulated(f) == f @@ <<>>

\* evaluateCriteria is a pure function: its values on the inputs above, computed once.
EvalMemo ==
  Tabulated([m \in KnownMails |->
              Tabulated([c \in KnownCriteria |-> evaluateCriteria(m, c)])])

\* evaluateRule: one rule against one email
WithRule(r, id) ==
  [matched |-> r.matched, rule |-> IF r.matched THEN id ELSE NoRule,
   confidence |-> r.confidence, matchedCriteria |-> r.matchedCriteria]

evaluateRule(email, rule) == WithRule(EvalMemo[TextOf(email)][rule.criteria], rule.id)

\* rules.filter(rule => rule.active).sort((a, b) => b.priority - a.priority):
\* the positions of the active rules, by descending priority; the sort is stable.
ComesBefore_Ascending(a, b) == a.priority <= b.priority
ComesBefore(a, b) == a.priority >= b.priority

InsertSorted(order, i, rs) ==
  LET k == Cardinality({j \in DOMAIN order : ComesBefore(rs[order[j]], rs[i])})
  IN  SubSeq(order, 1, k) \o <<i>> \o SubSeq(order, k + 1, Len(order))

RECURSIVE SortFrom(_, _, _)
SortFrom(rs, i, order) ==
  IF i > Len(rs) THEN order
  ELSE SortFrom(rs, i + 1, IF rs[i].active THEN InsertSorted(order, i, rs) ELSE order)

sortedRules(rs) == SortFrom(rs, 1, <<>>)

\* The for loop of processEmailWithRules: the position (in rs) of the first rule
\* of the sorted list that matches, 0 when none does.
RECURSIVE FirstMatch(_, _, _, _)
FirstMatch(email, rs, order, k) ==
  IF k > Len(order) THEN 0
  ELSE IF evaluateRule(email, rs[order[k]]).matched THEN order[k]
  ELSE FirstMatch(email, rs, order, k + 1)

NoMatchResult == [matched |-> FALSE, rule |-> NoRule, confidence |-> ZeroConfidence,
                  matchedCriteria |-> <<>>]

\* What processEmailWithRules returns, and the rule list it leaves behind.
RuleWinner(email, rs) == FirstMatch(email, rs, sortedRules(rs), 1)

\* the result when the rule at position w won (0: none did)
RuleMatchResult(email, rs, w) ==
  IF w = 0 THEN NoMatchResult ELSE evaluateRule(email, rs[w])

RulesAfterMatch(rs, w) ==
  IF w = 0 THEN rs ELSE [rs EXCEPT ![w].matched = @ + 1]

\* --------------------------------------------------------------- the state
EmailIds == {"e1", "e2"}
Callers == {"webhook", "manual"}
\* the caller of the calls that do not overlap
SeqCallers == {"manual"}

VARIABLES
  mail,             \* provider: id -> [from, subject, body, snippet]
  labelIds,         \* provider: id -> the label ids the message carries
  labelCache,       \* gmail service: the cached {id, name} label records
  tasks,            \* task tracker: id of the source email -> tasks created
  lastTask,         \* task tracker: id of the source email -> the last task created
  rules,            \* rule engine: the rule list with its match counters
  processingStats,  \* email processor: the process-lifetime counters
  aiInitialized,    \* ai service: isInitialized
  apiKey,           \* process.env.OPENAI_API_KEY is set
  call,             \* caller -> its processEmail call in flight
  nCalls,           \* calls issued so far in this run (bounds the run)
  wroteTerminal,    \* ids on which this process wrote Processed or Skip
  writeFailed,      \* some label write of this run failed
  classificationHistory,  \* ai service: the classifications recorded for learning
  classified,       \* ai service: how many it recorded so far, and since the last clear
  ruleCall,         \* the last direct processEmailWithRules call and its result
  aiCall,           \* the last direct classifyEmail call and its result
  classifying,      \* ai service: the classifyEmails call
  batchCreated,     \* tasks created for emails processed inside batch cycles
  healthy,          \* the provider and the tracker are past their last failure
  batchConfig, batchStats, batchInterval, timers, inv, lastRun,
  history,          \* batch processor: what its callers asked for last
  loop              \* email processor: the processEmails call

pipelineVars == <<mail, labelIds, labelCache, tasks, lastTask, rules, processingStats,
                  aiInitialized, apiKey, call, nCalls, wroteTerminal, writeFailed,
                 classificationHistory, classified>>
batchVars == <<batchConfig, batchStats, batchInterval, timers, inv, lastRun, history>>
vars == <<pipelineVars, ruleCall, aiCall, classifying, batchCreated, healthy, batchVars,
          loop>>

\* ----------------------------------------------------------- gmail service
NoEmail == [id |-> "null", from |-> "", subject |-> "", body |-> "",
            snippet |-> "", labelIds |-> {}]

\* getEmailById, when the provider answers: the snapshot of the message
getEmailById(emailId) ==
  [id |-> emailId, from |-> mail[emailId].from, subject |-> mail[emailId].subject,
   body |-> mail[emailId].body, snippet |-> mail[emailId].snippet,
   labelIds |-> labelIds[emailId]]

\* hasLabel: some label id of the email is cached under the given name
hasLabel_Unresolved(email, labelName) == labelName \in email.labelIds
hasLabel(email, labelName) ==
  \E labelId \in email.labelIds :
    \E label \in labelCache : label.id = labelId /\ label.name = labelName

\* The names of the labels a set of label ids stands for at the provider.
NamesOf(ids) == {n \in LabelNames : LabelIdOf(n) \in ids}

\* addLabelToEmail never throws; what can happen to one call (the active account
\* is cached since the fetch of the email, so getActiveGmailAccount answers):
\*   ok          every provider request succeeds
\*   refreshFail the label list cannot be fetched on a cache miss
\*   writeFail   GMAIL_ADD_LABEL_TO_EMAIL fails or throws
AddLabelOutcomes == {"ok", "refreshFail", "writeFail"}

\* getLabelId with refreshLabelCache: the cache the lookup leaves behind
getLabelId(cache, labelName, refreshOk) ==
  IF \E l \in cache : l.name = labelName THEN cache
  ELSE IF refreshOk THEN GmailLabelList ELSE cache

addLabelToEmail_Replacing(cache, lids, emailId, labelName, outcome) ==
  LET cache2 == getLabelId(cache, labelName, outcome # "refreshFail")
      found == \E l \in cache2 : l.name = labelName
      ok == found /\ outcome # "writeFail"
      labelId == (CHOOSE l \in cache2 : l.name = labelName).id
  IN  [cache |-> cache2,
       labelIds |-> IF ok THEN [lids EXCEPT ![emailId] = {labelId}] ELSE lids,
       ok |-> ok]
addLabelToEmail(cache, lids, emailId, labelName, outcome) ==
  LET cache2 == getLabelId(cache, labelName, outcome # "refreshFail")
      found == \E l \in cache2 : l.name = labelName
      ok == found /\ outcome # "writeFail"
      labelId == (CHOOSE l \in cache2 : l.name = labelName).id
  IN  [cache |-> cache2,
       labelIds |-> IF ok THEN [lids EXCEPT ![emailId] = @ \cup {labelId}] ELSE lids,
       ok |-> ok]

\* markEmailProcessed: the label a status is written as (the removal of
\* TodoAgent_Failed on success is commented out in the source)
markEmailProcessed_AlwaysProcessed(status) ==
  CASE status = "skipped" -> "TodoAgent_Skip"
    [] OTHER              -> "TodoAgent_Processed"
markEmailProcessed(status) ==
  CASE status = "success" -> "TodoAgent_Processed"
    [] status = "failed"  -> "TodoAgent_Failed"
    [] OTHER              -> "TodoAgent_Skip"

\* ------------------------------------------------------------ task tracker
\* text.match(regex) for the patterns of extractDueDateFromText. A pattern is a
\* list of elements; an element is a list of alternative words, the empty list
\* standing for \s+. MatchEnd is the position after the match of the elements
\* from the k-th on that starts at position i, or 0 when there is none.
SpacesAt(text, i) ==
  Cardinality({j \in i..Len(text) : \A x \in i..j : IsSpace(text[x])})

RECURSIVE MatchEnd(_, _, _, _)
MatchEnd(text, i, pat, k) ==
  IF k > Len(pat) THEN i
  ELSE IF pat[k] = <<>>
  THEN IF SpacesAt(text, i) = 0 THEN 0
       ELSE MatchEnd(text, i + SpacesAt(text, i), pat, k + 1)
  ELSE LET hits == {a \in DOMAIN pat[k] :
                      startsWith(SubSeq(text, i, Len(text)), Chars(pat[k][a]))}
       IN  IF hits = {} THEN 0
           ELSE MatchEnd(text, i + Len(Chars(pat[k][CHOOSE a \in hits : TRUE])), pat, k + 1)

\* match[0]: the leftmost match of the pattern, <<>> when there is none (a
\* match is never empty)
Matched(text, pat) ==
  LET starts == {i \in DOMAIN text : MatchEnd(text, i, pat, 1) # 0}
  IN  IF starts = {} THEN <<>>
      ELSE LET i == CHOOSE x \in starts : \A y \in starts : x <= y
           IN  SubSeq(text, i, MatchEnd(text, i, pat, 1) - 1)

\* s.split(' '): the pieces between single spaces
RECURSIVE split(_)
split(s) ==
  IF \A i \in DOMAIN s : s[i] # " " THEN <<s>>
  ELSE <<BeforeFirst(s, " ")>> \o split(SubSeq(s, Len(BeforeFirst(s, " ")) + 2, Len(s)))

\* pieces[n] of JavaScript (from 0), undefined being <<>>
Piece(pieces, n) == IF n + 1 <= Len(pieces) THEN pieces[n + 1] ELSE <<>>

DuePatterns ==
  << [regex |-> << <<"by">>, <<>>, <<"today", "tomorrow">> >>, value |-> "second"],
     [regex |-> << <<"due">>, <<>>, <<"today", "tomorrow">> >>, value |-> "second"],
     [regex |-> << <<"by">>, <<>>, <<"end">>, <<>>, <<"of">>, <<>>, <<"day", "week">> >>,
      value |-> "endOf"],
     [regex |-> << <<"by">>, <<>>,
                   <<"monday", "tuesday", "wednesday", "thursday", "friday", "saturday",
                     "sunday">> >>, value |-> "second"],
     [regex |-> << <<"next">>, <<>>, <<"week", "month">> >>, value |-> "match"],
     [regex |-> << <<"this">>, <<>>, <<"week", "month">> >>, value |-> "match"] >>

\* pattern.value(match[0])
DueValue(kind, match) ==
  CASE kind = "second" -> Piece(split(match), 1)
    [] kind = "endOf"  -> Chars("end of ") \o split(match)[Len(split(match))]
    [] OTHER           -> match

\* extractDueDateFromText: the value of the first pattern that matches; <<>>
\* stands for undefined (and for the empty string, which createTask treats alike)
RECURSIVE DueFrom(_, _)
DueFrom(text, k) ==
  IF k > Len(DuePatterns) THEN <<>>
  ELSE IF Matched(text, DuePatterns[k].regex) # <<>>
  THEN DueValue(DuePatterns[k].value, Matched(text, DuePatterns[k].regex))
  ELSE DueFrom(text, k + 1)

extractDueDateFromText(text) == DueFrom(text, 1)

urgentKeywords == <<"urgent", "asap", "important", "critical", "deadline">>
highKeywords == <<"please review", "action required", "needed by">>

\* createTaskFromEmail, lines 70-81: the priority, from keywords of the text
keywordPriority(emailText) ==
  IF some(urgentKeywords, LAMBDA keyword : includes(emailText, Chars(keyword))) THEN 4
  ELSE IF some(highKeywords, LAMBDA keyword : includes(emailText, Chars(keyword))) THEN 3
  ELSE 2

\* (email.subject + ' ' + email.body).toLowerCase()
emailTextOf(email) == toLowerCase(Chars(email.subject) \o Chars(" ") \o Chars(email.body))

\* new Date(email.timestamp).toLocaleString(): the messages of the model were
\* all received at one time
ReceivedAt == Chars("2024-01-01")

\* createTaskFromEmail: the task data built from the email
createTaskFromEmail(email) ==
  [title |-> titleFrom(trim(stripReplyPrefix(Chars(email.subject))),
                       senderName(Chars(email.from))),
   description |-> Chars(email.snippet) \o Chars("\n\nFrom: ") \o Chars(email.from)
                     \o Chars("\nReceived: ") \o ReceivedAt,
   priority |-> keywordPriority(emailTextOf(email)),
   dueDate |-> extractDueDateFromText(emailTextOf(email)),
   labels |-> <<"email-todo">>]

\* The arguments of TODOIST_CREATE_TASK; <<>> and 0 stand for an argument left out.
NoTask == [content |-> <<>>, description |-> <<>>, priority |-> 0,
           due_string |-> <<>>, labels |-> <<>>]

\* createTask, lines 16-38: the arguments sent for the task data
createTask(taskData) ==
  [content |-> taskData.title,
   description |-> trim(taskData.description),
   priority |-> IF taskData.priority >= 1 /\ taskData.priority <= 4
                THEN taskData.priority ELSE 0,
   due_string |-> trim(taskData.dueDate),
   labels |-> taskData.labels]

\* createTaskFromEmail on the messages of the model, computed once
TaskMemo == Tabulated([m \in KnownMails |-> createTask(createTaskFromEmail(m))])

\* --------------------------------------------------------- email processor
hasProcessedLabel_OrFailed(email) ==
  \/ hasLabel(email, "TodoAgent_Processed")
  \/ hasLabel(email, "TodoAgent_Skip")
  \/ hasLabel(email, "TodoAgent_Failed")
hasProcessedLabel(email) ==
  hasLabel(email, "TodoAgent_Processed") \/ hasLabel(email, "TodoAgent_Skip")

hasActionLabel(email) ==
  \E i \in DOMAIN actionLabels : hasLabel(email, actionLabels[i])

\* skipKeywords.some(keyword => fromLower.includes(keyword) || subjectLower.includes(keyword))
\* (the keywords are lower-case already)
shouldSkipText(text) ==
  some(skipKeywords,
       LAMBDA keyword : \E field \in {text.from, text.subject} :
                          includes(Lower(field), Chars(keyword)))

SkipMemo == Tabulated([m \in KnownMails |-> shouldSkipText(m)])

shouldSkipEmail(email) == SkipMemo[TextOf(email)]

ZeroStats == [totalProcessed |-> 0, ruleMatched |-> 0, aiProcessed |-> 0,
              tasksCreated |-> 0, skipped |-> 0, failed |-> 0]

NoResult == [success |-> FALSE, taskId |-> FALSE, error |-> "none"]
Result(success, taskId, error) == [success |-> success, taskId |-> taskId, error |-> error]

\* AIClassificationResult.taskData, when there is none
NoTaskData == [present |-> FALSE, title |-> <<>>, description |-> <<>>,
               dueString |-> <<>>, priority |-> 0, category |-> "none"]

\* A confidence of the classifier is a number of thousandths.
\* urgencyLevel is temporalIndicators.urgencyLevel, "none" when the verdict has
\* no temporalIndicators.
NoVerdict == [isActionable |-> FALSE, suggestedLabel |-> "none", confidence |-> 0,
              urgencyLevel |-> "none", taskData |-> NoTaskData]

\* extractTaskDataFromLabeledEmail: the task data read off the labels of an
\* email (email.timestamp is written as it is stored)
StoredTimestamp == Chars("1704067200000")

NoLabeledData == [title |-> <<>>, description |-> <<>>, priority |-> 0, category |-> "none"]

extractTaskDataFromLabeledEmail(email) ==
  [title |-> titleFrom(trim(stripReplyPrefix(Chars(email.subject))),
                       senderName(Chars(email.from))),
   description |-> Chars(email.snippet) \o Chars("\n\nFrom: ") \o Chars(email.from)
                     \o Chars("\nReceived: ") \o StoredTimestamp,
   priority |-> IF hasLabel(email, "TodoAgent_Important") THEN 4
                ELSE IF hasLabel(email, "TodoAgent_Urgent") THEN 4
                ELSE IF hasLabel(email, "TodoAgent_Meeting") THEN 3
                ELSE 2,
   category |-> IF hasLabel(email, "TodoAgent_Important") THEN "urgent"
                ELSE IF hasLabel(email, "TodoAgent_Urgent") THEN "urgent"
                ELSE IF hasLabel(email, "TodoAgent_Meeting") THEN "meeting"
                ELSE "task"]

\* A processEmail call: where it stands (pc), what it holds (emailId, email,
\* rule, verdict, result), what it has done so far (carried .. ranBasic), and
\* what kept the classifier from answering, if anything (outage: "noKey",
\* "initFailed", or the failure of the request to the language model), and the
\* task data processLabeledEmail read off its labels (labeled).
IdleCall ==
  [pc |-> "idle", emailId |-> "null", email |-> NoEmail, rule |-> 0,
   verdict |-> NoVerdict, result |-> NoResult,
   carried |-> {}, before |-> {}, prior |-> FALSE, fetched |-> FALSE,
   created |-> 0, wrote |-> {}, attempted |-> {},
   ranRules |-> FALSE, ranAI |-> FALSE, ranBasic |-> FALSE, outage |-> "none",
   labeled |-> NoLabeledData]

Return_UnlessWriteFailed(cr, result) ==
  [cr EXCEPT !.pc = "done",
             !.result = IF cr.attempted # cr.wrote
                        THEN [result EXCEPT !.success = FALSE, !.taskId = FALSE]
                        ELSE result]
Return(cr, result) == [cr EXCEPT !.pc = "done", !.result = result]
Bump(st, field) == [st EXCEPT ![field] = @ + 1]

\* What a step of processEmail leaves: the call, the counters, the rule list.
Left(cr, st, rs) == [call |-> cr, stats |-> st, rules |-> rs]

\* processWithBasicClassification up to its first await
processWithBasicClassification_NoDenylist(cr, st, rs) ==
  Left([cr EXCEPT !.ranBasic = TRUE, !.pc = "basic_create"], st, rs)
processWithBasicClassification(cr, st, rs) ==
  Left([cr EXCEPT !.ranBasic = TRUE,
                  !.pc = IF shouldSkipEmail(cr.email) THEN "basic_skip_label"
                                                      ELSE "basic_create"],
       st, rs)

\* processWithAI up to its first await
processWithAI(cr, st, rs) ==
  IF ~apiKey THEN processWithBasicClassification([cr EXCEPT !.outage = "noKey"],
                                                 Bump(st, "aiProcessed"), rs)
  ELSE Left([cr EXCEPT !.pc = "ai_init"], Bump(st, "aiProcessed"), rs)

\* processEmail, lines 441-474, the rule at position w having won (0: none did)
AfterRules(cr, st, rs, w) ==
  IF w = 0
  THEN processWithAI([cr EXCEPT !.ranRules = TRUE], st, rs)
  ELSE Left([cr EXCEPT !.ranRules = TRUE, !.rule = w, !.pc = "rule_label"],
            st, RulesAfterMatch(rs, w))

\* processEmail after a successful getEmailById: steps 1 to 5, up to the next await
AfterFetch(cr, st, rs) ==
  IF hasProcessedLabel(cr.email)
  THEN Left(Return(cr, Result(TRUE, FALSE, "Already processed")), Bump(st, "skipped"), rs)
  ELSE IF hasLabel(cr.email, "TodoAgent_Skip")
  THEN Left(Return(cr, Result(TRUE, FALSE, "Marked to skip")), Bump(st, "skipped"), rs)
  ELSE IF hasActionLabel(cr.email)
  THEN Left([cr EXCEPT !.pc = "labeled_create"], Bump(st, "ruleMatched"), rs)
  ELSE AfterRules(cr, st, rs, RuleWinner(cr.email, rs))

\* The step of call c leaves n.
Resume(c, n) ==
  /\ call' = [call EXCEPT ![c] = n.call]
  /\ processingStats' = n.stats
  /\ rules' = n.rules

\* A label write of a call: the provider and cache it leaves, and the call's notes.
WriteLabel(c, labelName, outcome) ==
  LET r == addLabelToEmail(labelCache, labelIds, call[c].emailId, labelName, outcome)
  IN  /\ labelCache' = r.cache
      /\ labelIds' = r.labelIds
      /\ wroteTerminal' =
           IF r.ok /\ labelName \in {"TodoAgent_Processed", "TodoAgent_Skip"}
           THEN wroteTerminal \cup {call[c].emailId} ELSE wroteTerminal
      /\ writeFailed' = (writeFailed \/ ~r.ok)

Noted(c, cr, labelName, outcome) ==
  LET r == addLabelToEmail(labelCache, labelIds, call[c].emailId, labelName, outcome)
  IN  [cr EXCEPT !.attempted = @ \cup {labelName},
                 !.wrote = IF r.ok THEN @ \cup {labelName} ELSE @]

\* createTaskFromEmail never throws: it creates a task and returns its id, or fails
CreateTask(c, ok) ==
  /\ tasks' = IF ok THEN [tasks EXCEPT ![call[c].emailId] = @ + 1] ELSE tasks
  /\ lastTask' = IF ok THEN [lastTask EXCEPT ![call[c].emailId] =
                                             TaskMemo[TextOf(call[c].email)]]
                       ELSE lastTask

\* processEmail, line 398: count the call, then await getEmailById
StartCall(c, e) ==
  /\ call[c].pc = "idle"
  /\ nCalls < MaxCalls
  /\ nCalls' = nCalls + 1
  /\ processingStats' = Bump(processingStats, "totalProcessed")
  /\ call' = [call EXCEPT ![c] =
                [IdleCall EXCEPT !.pc = "fetch", !.emailId = e,
                                 !.carried = NamesOf(labelIds[e]),
                                 !.before = labelIds[e],
                                 !.prior = (e \in wroteTerminal)]]
  /\ UNCHANGED <<mail, labelIds, labelCache, tasks, lastTask, rules, aiInitialized, apiKey,
                 wroteTerminal, writeFailed, classificationHistory, classified, ruleCall, aiCall,
                 classifying, batchCreated, healthy, batchVars>>

\* getEmailById answers (ok) or returns null
Fetched(c, ok) ==
  /\ call[c].pc = "fetch"
  /\ IF ok
     THEN Resume(c, AfterFetch([call[c] EXCEPT !.email = getEmailById(call[c].emailId),
                                               !.fetched = TRUE],
                               processingStats, rules))
     ELSE Resume(c, Left(Return(call[c], Result(FALSE, FALSE, "Email not found")),
                         processingStats, rules))
  /\ UNCHANGED <<mail, labelIds, labelCache, tasks, lastTask, aiInitialized, apiKey, nCalls,
                 wroteTerminal, writeFailed, classificationHistory, classified, ruleCall, aiCall,
                 classifying, batchCreated, healthy, batchVars, loop>>

\* processEmailWithRules: the winner's label is written; processEmail, lines 450-452
RuleLabel(c, outcome) ==
  /\ call[c].pc = "rule_label"
  /\ LET labelName == rules[call[c].rule].actions.label
     IN  /\ WriteLabel(c, labelName, outcome)
         /\ call' = [call EXCEPT ![c] =
                       [Noted(c, call[c], labelName, outcome) EXCEPT !.pc = "refetch"]]
  /\ processingStats' = Bump(processingStats, "ruleMatched")
  /\ UNCHANGED <<mail, tasks, lastTask, rules, aiInitialized, apiKey, nCalls,
                 classificationHistory, classified, ruleCall, aiCall, classifying, batchCreated,
                 healthy, batchVars, loop>>

\* processEmail, lines 455-471: the email is fetched again
Refetch(c, ok) ==
  /\ call[c].pc = "refetch"
  /\ IF ok /\ hasActionLabel(getEmailById(call[c].emailId))
     THEN Resume(c, Left([call[c] EXCEPT !.email = getEmailById(call[c].emailId),
                                         !.pc = "labeled_create"],
                         processingStats, rules))
     ELSE IF rules[call[c].rule].actions.skipAI
     THEN Resume(c, Left([call[c] EXCEPT !.pc = "rule_skip_mark"], processingStats, rules))
     ELSE Resume(c, processWithAI(call[c], processingStats, rules))
  /\ UNCHANGED <<mail, labelIds, labelCache, tasks, lastTask, aiInitialized, apiKey, nCalls,
                 wroteTerminal, writeFailed, classificationHistory, classified, ruleCall, aiCall,
                 classifying, batchCreated, healthy, batchVars, loop>>

\* processEmail, lines 461-469: the rule says skipAI
RuleSkipMark_Uncounted(c, outcome) ==
  /\ call[c].pc = "rule_skip_mark"
  /\ LET labelName == markEmailProcessed("skipped")
     IN  /\ WriteLabel(c, labelName, outcome)
         /\ call' = [call EXCEPT ![c] =
                       Return(Noted(c, call[c], labelName, outcome),
                              Result(TRUE, FALSE, "Rule marked to skip"))]
  /\ UNCHANGED <<mail, tasks, lastTask, rules, processingStats, aiInitialized, apiKey, nCalls,
                 classificationHistory, classified, ruleCall, aiCall, classifying, batchCreated,
                 healthy, batchVars, loop>>
RuleSkipMark(c, outcome) ==
  /\ call[c].pc = "rule_skip_mark"
  /\ LET labelName == markEmailProcessed("skipped")
     IN  /\ WriteLabel(c, labelName, outcome)
         /\ call' = [call EXCEPT ![c] =
                       Return(Noted(c, call[c], labelName, outcome),
                              Result(TRUE, FALSE, "Rule marked to skip"))]
  /\ processingStats' = Bump(processingStats, "skipped")
  /\ UNCHANGED <<mail, tasks, lastTask, rules, aiInitialized, apiKey, nCalls,
                 classificationHistory, classified, ruleCall, aiCall, classifying, batchCreated,
                 healthy, batchVars, loop>>

\* processLabeledEmail: the task data of the labels is computed, and
\* createTaskFromEmail(email) answers
LabeledCreate(c, ok) ==
  /\ call[c].pc = "labeled_create"
  /\ CreateTask(c, ok)
  /\ call' = [call EXCEPT ![c] =
                [@ EXCEPT !.labeled = extractTaskDataFromLabeledEmail(call[c].email),
                          !.created = @ + (IF ok THEN 1 ELSE 0),
                          !.pc = IF ok THEN "labeled_mark_success"
                                       ELSE "labeled_mark_failed"]]
  /\ UNCHANGED <<mail, labelIds, labelCache, rules, processingStats, aiInitialized, apiKey,
                 nCalls, wroteTerminal, writeFailed, classificationHistory, classified, ruleCall,
                 aiCall, classifying, batchCreated, healthy, batchVars, loop>>

\* processLabeledEmail: markEmailProcessed answers, the result is returned
LabeledMark(c, outcome) ==
  /\ call[c].pc \in {"labeled_mark_success", "labeled_mark_failed"}
  /\ LET success == call[c].pc = "labeled_mark_success"
         labelName == markEmailProcessed(IF success THEN "success" ELSE "failed")
     IN  /\ WriteLabel(c, labelName, outcome)
         /\ call' = [call EXCEPT ![c] =
                       Return(Noted(c, call[c], labelName, outcome),
                              IF success THEN Result(TRUE, TRUE, "none")
                                         ELSE Result(FALSE, FALSE, "task creation failed"))]
         /\ processingStats' = IF success THEN Bump(processingStats, "tasksCreated")
                                          ELSE processingStats
  /\ UNCHANGED <<mail, tasks, lastTask, rules, aiInitialized, apiKey, nCalls,
                 classificationHistory, classified, ruleCall, aiCall, classifying, batchCreated,
                 healthy, batchVars, loop>>

\* ---------------------------------------------------------------- ai service
validLabels == <<"TodoAgent_Important", "TodoAgent_Urgent", "TodoAgent_Meeting",
                 "TodoAgent_Task", "TodoAgent_Skip">>

validateLabel(label) ==
  IF \E i \in DOMAIN validLabels : validLabels[i] = label THEN label ELSE "TodoAgent_Skip"

\* What can go wrong with the request to the language model: fetch rejects, the
\* response is not OK, its content is not JSON, or the JSON is not an object
\* (null: reading a property of it throws).
LLMFailures == {"network", "status", "unparsable", "notAnObject"}

\* result.confidence as the model gives it: a number of thousandths, or
\* something Number() does not convert (absent, a word).
NoNumber == [isNumber |-> FALSE, value |-> 0]
RawConfidences == {NoNumber} \cup [isNumber : {TRUE}, value : {-500, 0, 100, 900, 1500}]

\* result.taskData as the model gives it: absent, or an object whose title,
\* description and dueString may be empty or absent ("") and whose priority may
\* be absent (0) or out of range and whose category may be absent ("") or unknown.
NoRawTaskData == [present |-> FALSE, title |-> "", description |-> "",
                  dueString |-> "", priority |-> 0, category |-> ""]
RawTaskData ==
  {NoRawTaskData}
  \cup [present : {TRUE}, title : {"", "Call Bob"}, description : {"", "d"},
        dueString : {"", "tomorrow"}, priority : {0, 4, 9},
        category : {"", "meeting", "memo"}]

\* result.temporalIndicators.urgencyLevel as the model gives it: absent (""), a
\* level, or another word.
RawUrgencies == {"", "high", "soon"}

RawLabels == {"TodoAgent_Urgent", "TodoAgent_Skip", "Inbox"}

Answer(isActionable, suggestedLabel, confidence, urgencyLevel, taskData) ==
  [failure |-> "none", isActionable |-> isActionable, suggestedLabel |-> suggestedLabel,
   confidence |-> confidence, urgencyLevel |-> urgencyLevel, taskData |-> taskData]

NoAnswer(failure) ==
  [failure |-> failure, isActionable |-> FALSE, suggestedLabel |-> "none",
   confidence |-> NoNumber, urgencyLevel |-> "", taskData |-> NoRawTaskData]

\* Every answer of the language model the classifier is explored on.
AllLLMResponses ==
  {NoAnswer(f) : f \in LLMFailures}
  \cup {Answer(a, l, c, u, t) : a \in BOOLEAN, l \in RawLabels, c \in RawConfidences,
                                u \in RawUrgencies, t \in RawTaskData}

\* The answers the pipeline is explored on: a failed request, and answers with
\* and without task data.
LLMResponses ==
  {NoAnswer("network")}
  \cup {Answer(a, l, [isNumber |-> TRUE, value |-> 900], "high", t) :
          a \in BOOLEAN, l \in RawLabels,
          t \in {NoRawTaskData,
                 [present |-> TRUE, title |-> "Call Bob", description |-> "d",
                  dueString |-> "tomorrow", priority |-> 4, category |-> "meeting"]}}

\* generateTaskTitle
generateTaskTitle(email) ==
  titleFrom(trim(stripReplyPrefix(Chars(email.subject))), senderName(Chars(email.from)))

TitleMemo == Tabulated([m \in KnownMails |-> generateTaskTitle(m)])

\* Math.max(0, Math.min(1, Number(result.confidence) || 0.5)), in thousandths
normalizeConfidence_Unclamped(raw) ==
  IF raw.isNumber /\ raw.value # 0 THEN raw.value ELSE 500
normalizeConfidence(raw) ==
  LET n == IF raw.isNumber /\ raw.value # 0 THEN raw.value ELSE 500
  IN  IF n > 1000 THEN 1000 ELSE IF n < 0 THEN 0 ELSE n

\* validateAndNormalizeResult, lines 224-226 and 239-241: the enums of the
\* urgency level and of the category
urgencyLevels == <<"low", "medium", "high">>
categories == <<"task", "meeting", "review", "urgent", "information">>
\* Array.prototype.includes
listIncludes(list, x) == \E i \in DOMAIN list : list[i] = x

\* validateAndNormalizeResult, lines 232-243: the task data of an actionable
\* verdict
normalizeTaskData(raw, email) ==
  [present |-> TRUE,
   title |-> IF raw.title # "" THEN Chars(raw.title) ELSE TitleMemo[TextOf(email)],
   description |-> IF raw.description # "" THEN Chars(raw.description)
                                           ELSE Chars(email.snippet),
   dueString |-> Chars(raw.dueString),
   priority |-> IF raw.priority \in 1..4 THEN raw.priority ELSE 2,
   category |-> IF listIncludes(categories, raw.category) THEN raw.category ELSE "task"]

\* (keywords, reasoning and the other temporal indicators are left out: nothing
\* reads them)
validateAndNormalizeResult(raw, email) ==
  [isActionable |-> raw.isActionable,
   suggestedLabel |-> validateLabel(raw.suggestedLabel),
   confidence |-> normalizeConfidence(raw.confidence),
   urgencyLevel |-> IF listIncludes(urgencyLevels, raw.urgencyLevel) THEN raw.urgencyLevel
                                                                  ELSE "low",
   taskData |-> IF raw.isActionable /\ raw.taskData.present
                THEN normalizeTaskData(raw.taskData, email) ELSE NoTaskData]

\* classifyEmail, lines 137-148: the fallback classification
fallbackClassification_Even ==
  [isActionable |-> FALSE, suggestedLabel |-> "TodoAgent_Skip", confidence |-> 500,
   urgencyLevel |-> "none", taskData |-> NoTaskData]
fallbackClassification ==
  [isActionable |-> FALSE, suggestedLabel |-> "TodoAgent_Skip", confidence |-> 100,
   urgencyLevel |-> "none", taskData |-> NoTaskData]

\* classifyEmail on an initialized service: the verdict, or the fallback verdict
classifyEmail(email, resp) ==
  IF resp.failure = "none" THEN validateAndNormalizeResult(resp, email)
  ELSE fallbackClassification

\* recordClassification, line 286: the history keeps its last 1000 entries
HistoryCapacity == 1000
NoneClassified == [total |-> 0, sinceClear |-> 0]

\* list.slice(-n): the last n elements, or all of a shorter list
sliceLast(list, n) ==
  IF Len(list) > n THEN SubSeq(list, Len(list) - n + 1, Len(list)) ELSE list

\* recordClassification: the history after the verdict is recorded (from, subject
\* and keywords are left out; timestamp, new Date(), is written as the ordinal of
\* the classification)
recordClassification_KeepOldest(hist, email, result, now) ==
  LET pushed == Append(hist, [emailId |-> email.id, classification |-> result.suggestedLabel,
                              confidence |-> result.confidence, timestamp |-> now])
  IN  IF Len(pushed) > HistoryCapacity THEN SubSeq(pushed, 1, HistoryCapacity) ELSE pushed
recordClassification(hist, email, result, now) ==
  LET pushed == Append(hist, [emailId |-> email.id, classification |-> result.suggestedLabel,
                              confidence |-> result.confidence, timestamp |-> now])
  IN  IF Len(pushed) > HistoryCapacity THEN sliceLast(pushed, HistoryCapacity) ELSE pushed

\* classifyEmail, lines 129-133: a verdict of the language model is recorded, the
\* fallback verdict is not
Learn(email, resp) ==
  IF resp.failure = "none"
  THEN /\ classificationHistory' =
            recordClassification(classificationHistory, email,
                                 validateAndNormalizeResult(resp, email), classified.total + 1)
       /\ classified' = [total |-> classified.total + 1,
                         sinceClear |-> classified.sinceClear + 1]
  ELSE UNCHANGED <<classificationHistory, classified>>

\* initializeAI: isInitialized after the call, testOk telling whether the test
\* request to the API answered OK
initializeAI(initialized, key, testOk) == initialized \/ (key /\ testOk)

\* processWithAI, lines 602-605: initializeAI answers; classifyEmail throws at
\* once on a service that is not initialized, and the catch falls back
AIInit(c, testOk) ==
  /\ call[c].pc = "ai_init"
  /\ aiInitialized' = initializeAI(aiInitialized, apiKey, testOk)
  /\ IF initializeAI(aiInitialized, apiKey, testOk)
     THEN Resume(c, Left([call[c] EXCEPT !.pc = "ai_classify"], processingStats, rules))
     ELSE Resume(c, processWithBasicClassification(
                      [call[c] EXCEPT !.outage = "initFailed"], processingStats, rules))
  /\ UNCHANGED <<mail, labelIds, labelCache, tasks, lastTask, apiKey, nCalls, wroteTerminal,
                 writeFailed, classificationHistory, classified, ruleCall, aiCall, classifying,
                 batchCreated, healthy, batchVars, loop>>

\* processWithAI, lines 605-609: the verdict arrives
AIClassify(c, resp) ==
  /\ call[c].pc = "ai_classify"
  /\ LET verdict == classifyEmail(call[c].email, resp)
     IN  call' = [call EXCEPT ![c] =
                    [@ EXCEPT !.ranAI = TRUE, !.verdict = verdict,
                              !.outage = resp.failure,
                              !.pc = IF verdict.isActionable /\ verdict.taskData.present
                                     THEN "ai_label" ELSE "ai_skip_label"]]
  /\ Learn(call[c].email, resp)
  /\ UNCHANGED <<mail, labelIds, labelCache, tasks, lastTask, rules, processingStats,
                 aiInitialized, apiKey, nCalls, wroteTerminal, writeFailed, ruleCall, aiCall,
                 classifying, batchCreated, healthy, batchVars, loop>>

\* processWithAI, lines 611 and 640: the suggested label, or Skip, is written
AILabel(c, outcome) ==
  /\ call[c].pc \in {"ai_label", "ai_skip_label"}
  /\ LET actionable == call[c].pc = "ai_label"
         labelName == IF actionable THEN call[c].verdict.suggestedLabel
                                    ELSE "TodoAgent_Skip"
     IN  /\ WriteLabel(c, labelName, outcome)
         /\ call' = [call EXCEPT ![c] =
                       [Noted(c, call[c], labelName, outcome) EXCEPT
                          !.pc = IF actionable THEN "ai_create" ELSE "ai_skip_mark"]]
  /\ UNCHANGED <<mail, tasks, lastTask, rules, processingStats, aiInitialized, apiKey, nCalls,
                 classificationHistory, classified, ruleCall, aiCall, classifying, batchCreated,
                 healthy, batchVars, loop>>

\* processWithAI, line 614: createTaskFromEmail answers
AICreate(c, ok) ==
  /\ call[c].pc = "ai_create"
  /\ CreateTask(c, ok)
  /\ call' = [call EXCEPT ![c] =
                [@ EXCEPT !.created = @ + (IF ok THEN 1 ELSE 0),
                          !.pc = IF ok THEN "ai_mark_success" ELSE "ai_mark_failed"]]
  /\ UNCHANGED <<mail, labelIds, labelCache, rules, processingStats, aiInitialized, apiKey,
                 nCalls, wroteTerminal, writeFailed, classificationHistory, classified, ruleCall,
                 aiCall, classifying, batchCreated, healthy, batchVars, loop>>

\* processWithAI, lines 617-636 and 641-651: markEmailProcessed answers
AIMark(c, outcome) ==
  /\ call[c].pc \in {"ai_mark_success", "ai_mark_failed", "ai_skip_mark"}
  /\ LET pc == call[c].pc
         labelName == markEmailProcessed(
                        CASE pc = "ai_mark_success" -> "success"
                          [] pc = "ai_mark_failed"  -> "failed"
                          [] OTHER                  -> "skipped")
     IN  /\ WriteLabel(c, labelName, outcome)
         /\ call' = [call EXCEPT ![c] =
                       Return(Noted(c, call[c], labelName, outcome),
                              CASE pc = "ai_mark_success" -> Result(TRUE, TRUE, "none")
                                [] pc = "ai_mark_failed" ->
                                     Result(FALSE, FALSE, "task creation failed")
                                [] OTHER ->
                                     Result(TRUE, FALSE, "AI determined not actionable"))]
         /\ processingStats' =
              CASE pc = "ai_mark_success" -> Bump(processingStats, "tasksCreated")
                [] pc = "ai_mark_failed"  -> processingStats
                [] OTHER                  -> Bump(processingStats, "skipped")
  /\ UNCHANGED <<mail, tasks, lastTask, rules, aiInitialized, apiKey, nCalls,
                 classificationHistory, classified, ruleCall, aiCall, classifying, batchCreated,
                 healthy, batchVars, loop>>

\* processWithBasicClassification, line 664: the denylist matched, Skip is written
BasicSkipLabel(c, outcome) ==
  /\ call[c].pc = "basic_skip_label"
  /\ WriteLabel(c, "TodoAgent_Skip", outcome)
  /\ call' = [call EXCEPT ![c] =
                [Noted(c, call[c], "TodoAgent_Skip", outcome) EXCEPT !.pc = "basic_skip_mark"]]
  /\ UNCHANGED <<mail, tasks, lastTask, rules, processingStats, aiInitialized, apiKey, nCalls,
                 classificationHistory, classified, ruleCall, aiCall, classifying, batchCreated,
                 healthy, batchVars, loop>>

\* processWithBasicClassification, line 676: createTaskFromEmail answers
BasicCreate(c, ok) ==
  /\ call[c].pc = "basic_create"
  /\ CreateTask(c, ok)
  /\ call' = [call EXCEPT ![c] =
                [@ EXCEPT !.created = @ + (IF ok THEN 1 ELSE 0),
                          !.pc = IF ok THEN "basic_task_label" ELSE "basic_mark_failed"]]
  /\ UNCHANGED <<mail, labelIds, labelCache, rules, processingStats, aiInitialized, apiKey,
                 nCalls, wroteTerminal, writeFailed, classificationHistory, classified, ruleCall,
                 aiCall, classifying, batchCreated, healthy, batchVars, loop>>

\* processWithBasicClassification, line 679: TodoAgent_Task is written
BasicTaskLabel(c, outcome) ==
  /\ call[c].pc = "basic_task_label"
  /\ WriteLabel(c, "TodoAgent_Task", outcome)
  /\ call' = [call EXCEPT ![c] =
                [Noted(c, call[c], "TodoAgent_Task", outcome) EXCEPT
                   !.pc = "basic_mark_success"]]
  /\ UNCHANGED <<mail, tasks, lastTask, rules, processingStats, aiInitialized, apiKey, nCalls,
                 classificationHistory, classified, ruleCall, aiCall, classifying, batchCreated,
                 healthy, batchVars, loop>>

\* processWithBasicClassification, lines 665-672, 680-688, 690-696
BasicMark(c, outcome) ==
  /\ call[c].pc \in {"basic_mark_success", "basic_mark_failed", "basic_skip_mark"}
  /\ LET pc == call[c].pc
         labelName == markEmailProcessed(
                        CASE pc = "basic_mark_success" -> "success"
                          [] pc = "basic_mark_failed"  -> "failed"
                          [] OTHER                     -> "skipped")
     IN  /\ WriteLabel(c, labelName, outcome)
         /\ call' = [call EXCEPT ![c] =
                       Return(Noted(c, call[c], labelName, outcome),
                              CASE pc = "basic_mark_success" -> Result(TRUE, TRUE, "none")
                                [] pc = "basic_mark_failed" ->
                                     Result(FALSE, FALSE, "task creation failed")
                                [] OTHER ->
                                     Result(TRUE, FALSE, "Basic classification - skipped"))]
         /\ processingStats' =
              CASE pc = "basic_mark_success" -> Bump(processingStats, "tasksCreated")
                [] pc = "basic_mark_failed"  -> processingStats
                [] OTHER                     -> Bump(processingStats, "skipped")
  /\ UNCHANGED <<mail, tasks, lastTask, rules, aiInitialized, apiKey, nCalls,
                 classificationHistory, classified, ruleCall, aiCall, classifying, batchCreated,
                 healthy, batchVars, loop>>

\* The caller takes the result: the call is over.
Finish(c) ==
  /\ call[c].pc = "done"
  /\ call' = [call EXCEPT ![c] = IdleCall]
  /\ UNCHANGED <<mail, labelIds, labelCache, tasks, lastTask, rules, processingStats,
                 aiInitialized, apiKey, nCalls, wroteTerminal, writeFailed, classificationHistory,
                 classified, ruleCall, aiCall, classifying, batchCreated, healthy, batchVars,
                 loop>>

\* resetProcessingStats: every counter of processingStats goes back to 0, at any
\* moment, calls in flight or not.
ResetProcessingStats ==
  /\ processingStats' = ZeroStats
  /\ UNCHANGED <<mail, labelIds, labelCache, tasks, lastTask, rules, aiInitialized, apiKey,
                 call, nCalls, wroteTerminal, writeFailed, classificationHistory, classified,
                 ruleCall, aiCall, classifying, batchCreated, healthy, batchVars, loop>>

\* The process is restarted: module state starts over (empty label cache, zero
\* counters, default rules); the provider's labels and the tracker's tasks stay.
Restart ==
  /\ \A c \in Callers : call[c].pc = "idle"
  /\ nCalls > 0
  /\ labelCache' = {}
  /\ processingStats' = ZeroStats
  /\ rules' = loadDefaultRules
  /\ aiInitialized' = FALSE
  /\ wroteTerminal' = {}
  /\ classificationHistory' = <<>>
  /\ classified' = [classified EXCEPT !.sinceClear = 0]
  /\ UNCHANGED <<mail, labelIds, tasks, lastTask, apiKey, call, nCalls, writeFailed, ruleCall,
                 aiCall, classifying, batchCreated, healthy, batchVars, loop>>

\* ------------------------------------------------- direct rule-engine calls
\* processEmailWithRules called on the message e as the provider holds it: the
\* rules are evaluated in sorted order, the first match is counted and its label
\* is written (every rule has a label; the result of the write is ignored).
processEmailWithRules(e, outcome, w) ==
  LET label == IF w = 0 THEN "none" ELSE rules[w].actions.label
      r == addLabelToEmail(labelCache, labelIds, e, label, outcome)
  IN  /\ rules' = RulesAfterMatch(rules, w)
      /\ labelCache' = IF w = 0 THEN labelCache ELSE r.cache
      /\ labelIds' = IF w = 0 THEN labelIds ELSE r.labelIds
      /\ ruleCall' = [emailId |-> e,
                      result |-> RuleMatchResult(getEmailById(e), rules, w),
                      winner |-> w,
                      before |-> [i \in DOMAIN rules |-> rules[i].matched],
                      label |-> label, wrote |-> w # 0 /\ r.ok]

RulesCall(e, outcome) ==
  /\ nCalls < MaxRuleCalls
  /\ nCalls' = nCalls + 1
  /\ processEmailWithRules(e, outcome, RuleWinner(getEmailById(e), rules))
  /\ UNCHANGED <<mail, tasks, lastTask, processingStats, aiInitialized, apiKey, call,
                 wroteTerminal, writeFailed, classificationHistory, classified, aiCall,
                 classifying, batchCreated, healthy, batchVars, loop>>

\* -------------------------------------------------- direct classifier calls
\* The last direct classifyEmail call: how many were made, the message, whether
\* the service was initialized, the answer of the language model (resp), and
\* what the call did.
NoAICall == [n |-> 0, emailId |-> "null", initialized |-> FALSE,
             resp |-> NoAnswer("network"), threw |-> FALSE, verdict |-> NoVerdict]

\* initializeAI called directly
InitializeAI(testOk) ==
  /\ aiInitialized' = initializeAI(aiInitialized, apiKey, testOk)
  /\ UNCHANGED <<mail, labelIds, labelCache, tasks, lastTask, rules, processingStats, apiKey,
                 call, nCalls, wroteTerminal, writeFailed, classificationHistory, classified,
                 ruleCall, aiCall, classifying, batchCreated, healthy, batchVars, loop>>

\* classifyEmail called directly on the message e, the language model giving
\* the answer aiCall.resp: the call throws at once on a service that is not
\* initialized, and otherwise returns a verdict
ClassifyEmail(e) ==
  /\ aiCall.n < MaxClassifyCalls
  /\ aiCall' = [n |-> aiCall.n + 1, emailId |-> e, initialized |-> aiInitialized,
                resp |-> aiCall.resp, threw |-> ~aiInitialized,
                verdict |-> IF aiInitialized
                            THEN classifyEmail(getEmailById(e), aiCall.resp)
                            ELSE NoVerdict]
  /\ IF aiInitialized THEN Learn(getEmailById(e), aiCall.resp)
                      ELSE UNCHANGED <<classificationHistory, classified>>
  /\ UNCHANGED <<mail, labelIds, labelCache, tasks, lastTask, rules, processingStats,
                 aiInitialized, apiKey, call, nCalls, wroteTerminal, writeFailed, ruleCall,
                 classifying, batchCreated, healthy, batchVars, loop>>

\* classifyEmails, line 295
batchSize == 5

\* The classifyEmails call: how many were made (n), where this one stands (pc),
\* the ids of its emails, the loop index i, the positions of the calls of the
\* group still pending, batchResults and results by position; and, as notes, the
\* answer of the language model to each call (resps), the groups in the order
\* their calls were issued (issued) and the positions in the order their calls
\* completed (completed).
NoClassifying ==
  [n |-> 0, pc |-> "idle", emails |-> <<>>, i |-> 0, pending |-> {},
   batchResults |-> <<>>, results |-> <<>>, resps |-> <<>>, issued |-> <<>>,
   completed |-> <<>>]

\* emails.slice(i, i + batchSize), as the positions of the emails (from 1)
sliceOf(emails, i) ==
  {k \in DOMAIN emails : i < k /\ k <= i + batchSize}

\* classifyEmails is called
ClassifyEmails(emails) ==
  /\ classifying.pc \in {"idle", "returned", "threw"}
  /\ classifying.n < MaxClassifyCalls
  /\ classifying' = [NoClassifying EXCEPT !.n = classifying.n + 1, !.emails = emails,
                                          !.pc = IF emails = <<>> THEN "returned" ELSE "map"]
  /\ UNCHANGED <<pipelineVars, ruleCall, aiCall, batchCreated, healthy, batchVars, loop>>

\* lines 297-299: classifyEmail is called on every email of the group; each call
\* rejects at once on a service that is not initialized, and so does Promise.all
IssueGroup ==
  /\ classifying.pc = "map"
  /\ LET batch == sliceOf(classifying.emails, classifying.i)
     IN  classifying' =
           IF aiInitialized
           THEN [classifying EXCEPT !.pc = "await", !.pending = batch,
                                    !.batchResults = <<>>, !.issued = Append(@, batch)]
           ELSE [classifying EXCEPT !.pc = "threw", !.issued = Append(@, batch)]
  /\ UNCHANGED <<pipelineVars, ruleCall, aiCall, batchCreated, healthy, batchVars, loop>>

\* One classifyEmail call of the group completes, the language model having
\* answered resp: Promise.all keeps its value at the position of its promise.
CallDone_InCompletionOrder(k, resp) ==
  /\ classifying.pc = "await"
  /\ k \in classifying.pending
  /\ LET email == getEmailById(classifying.emails[k])
     IN  /\ classifying' =
              [classifying EXCEPT
                 !.pending = @ \ {k},
                 !.batchResults = @ @@ ((classifying.i + Cardinality(DOMAIN @) + 1)
                                         :> classifyEmail(email, resp)),
                 !.resps = @ @@ (k :> resp),
                 !.completed = Append(@, k)]
         /\ Learn(email, resp)
  /\ UNCHANGED <<mail, labelIds, labelCache, tasks, lastTask, rules, processingStats,
                 aiInitialized, apiKey, call, nCalls, wroteTerminal, writeFailed, ruleCall,
                 aiCall, batchCreated, healthy, batchVars, loop>>
CallDone(k, resp) ==
  /\ classifying.pc = "await"
  /\ k \in classifying.pending
  /\ LET email == getEmailById(classifying.emails[k])
     IN  /\ classifying' =
              [classifying EXCEPT
                 !.pending = @ \ {k},
                 !.batchResults = @ @@ (k :> classifyEmail(email, resp)),
                 !.resps = @ @@ (k :> resp),
                 !.completed = Append(@, k)]
         /\ Learn(email, resp)
  /\ UNCHANGED <<mail, labelIds, labelCache, tasks, lastTask, rules, processingStats,
                 aiInitialized, apiKey, call, nCalls, wroteTerminal, writeFailed, ruleCall,
                 aiCall, batchCreated, healthy, batchVars, loop>>

\* lines 300-308: every call of the group has completed; batchResults is pushed
\* in the order of the promises, and the loop goes on (after the delay) or ends
GroupDone ==
  /\ classifying.pc = "await"
  /\ classifying.pending = {}
  /\ LET n == Len(classifying.emails)
         last == IF classifying.i + batchSize < n THEN classifying.i + batchSize ELSE n
     IN  classifying' =
           [classifying EXCEPT
              !.results = @ \o [j \in 1..(last - classifying.i) |->
                                  classifying.batchResults[classifying.i + j]],
              !.i = @ + batchSize,
              !.pc = IF classifying.i + batchSize < n THEN "map" ELSE "returned"]
  /\ UNCHANGED <<pipelineVars, ruleCall, aiCall, batchCreated, healthy, batchVars, loop>>

\* clearHistory
ClearHistory ==
  /\ classificationHistory' = <<>>
  /\ classified' = [classified EXCEPT !.sinceClear = 0]
  /\ UNCHANGED <<mail, labelIds, labelCache, tasks, lastTask, rules, processingStats,
                 aiInitialized, apiKey, call, nCalls, wroteTerminal, writeFailed, ruleCall,
                 aiCall, classifying, batchCreated, healthy, batchVars, loop>>

\* ---------------------------------------------------------- batch processor
DefaultMaxEmails == 50
Slots == 1..MaxCycles

InitialBatchConfig ==
  [maxEmailsPerBatch |-> DefaultMaxEmails, enabled |-> TRUE, runOnStartup |-> TRUE]

\* lastRunTime and nextRunTime: TRUE when set, FALSE when undefined
InitialBatchStats ==
  [totalRuns |-> 0, totalEmailsProcessed |-> 0, totalTasksCreated |-> 0,
   isRunning |-> FALSE, lastRunTime |-> FALSE, nextRunTime |-> FALSE]

\* A runBatchProcessing call that is past its guard: who awaits it (kind), where
\* it stands (pc), and its locals.
FreeSlot ==
  [kind |-> "none", pc |-> "free", originalMax |-> 0, statsBefore |-> 0,
   isStartupRun |-> FALSE, maxResults |-> 0, emails |-> <<>>, results |-> 0]

\* The last runBatchProcessing call: how many were made, whether this one
\* returned at the guard, and the stats it returned there.
NoRun == [n |-> 0, rejected |-> FALSE, returned |-> InitialBatchStats]

\* What the callers of the module asked for last: stopped holds from a return
\* of stopBatchProcessing to the next call of startBatchProcessing, and
\* configuredMax is the maxEmailsPerBatch of the initial configuration or of the
\* last updateBatchConfig that gave one.
NoHistory == [stopped |-> FALSE, configuredMax |-> DefaultMaxEmails]

\* The state of the batch module as one record.
Batch ==
  [config |-> batchConfig, stats |-> batchStats, interval |-> batchInterval,
   timers |-> timers, inv |-> inv, lastRun |-> lastRun, history |-> history]

SetBatch(b) ==
  /\ batchConfig' = b.config
  /\ batchStats' = b.stats
  /\ batchInterval' = b.interval
  /\ timers' = b.timers
  /\ inv' = b.inv
  /\ lastRun' = b.lastRun
  /\ history' = b.history

\* runBatchProcessing, line 83: the guard
AlreadyRunning_Never(stats) == FALSE
AlreadyRunning(stats) == stats.isRunning

\* runBatchProcessing up to its first await (getEmails inside processEmails): the
\* call returns the live stats at once, or takes the flag and starts a cycle.
runBatchProcessing(b, kind, originalMax) ==
  IF AlreadyRunning(b.stats)
  THEN [b EXCEPT !.lastRun = [n |-> @.n + 1, rejected |-> TRUE, returned |-> b.stats]]
  ELSE LET i == CHOOSE s \in Slots : b.inv[s].pc = "free"
           stats == [b.stats EXCEPT !.isRunning = TRUE, !.totalRuns = @ + 1]
       IN  [b EXCEPT
              !.stats = stats,
              !.inv[i] = [kind |-> kind, pc |-> "fetch", originalMax |-> originalMax,
                          statsBefore |-> processingStats.tasksCreated,
                          isStartupRun |-> stats.totalRuns = 1 /\ b.config.runOnStartup,
                          maxResults |-> b.config.maxEmailsPerBatch,
                          emails |-> <<>>, results |-> 0],
              !.lastRun = [n |-> @.n + 1, rejected |-> FALSE,
                           returned |-> InitialBatchStats]]

\* startBatchProcessing, lines 60-66: setInterval; the handle kept before, if any,
\* is overwritten without being cleared
armTimer(b) ==
  [b EXCEPT !.interval = TRUE, !.timers = @ + 1, !.stats.nextRunTime = TRUE]

\* startBatchProcessing() up to its first await
startBatchProcessing(b) ==
  IF ~b.config.enabled THEN [b EXCEPT !.history.stopped = FALSE]
  ELSE IF b.config.runOnStartup
  THEN LET r == runBatchProcessing([b EXCEPT !.history.stopped = FALSE], "start", 0)
       IN  IF r.lastRun.rejected THEN armTimer(r) ELSE r
  ELSE armTimer([b EXCEPT !.history.stopped = FALSE])

stopBatchProcessing(b) ==
  IF b.interval
  THEN [b EXCEPT !.interval = FALSE, !.timers = @ - 1, !.stats.nextRunTime = FALSE,
                 !.history.stopped = TRUE]
  ELSE [b EXCEPT !.history.stopped = TRUE]

\* { ...batchConfig, ...newConfig }
Merge(config, newConfig) ==
  [f \in DOMAIN config |-> IF f \in DOMAIN newConfig THEN newConfig[f] ELSE config[f]]

updateBatchConfig(b, newConfig) ==
  LET wasEnabled == b.config.enabled
      b1 == [b EXCEPT !.config = Merge(b.config, newConfig),
                      !.history.configuredMax =
                         IF "maxEmailsPerBatch" \in DOMAIN newConfig
                         THEN newConfig.maxEmailsPerBatch ELSE @]
  IN  IF wasEnabled # b1.config.enabled
      THEN IF b1.config.enabled THEN startBatchProcessing(b1)
                                ELSE stopBatchProcessing(b1)
      ELSE IF b1.config.enabled /\ b1.interval
      THEN startBatchProcessing(stopBatchProcessing(b1))
      ELSE b1

\* runManualBatch up to its first await; maxEmails = 0 stands for no argument
runManualBatch(b, maxEmails) ==
  LET originalMax == b.config.maxEmailsPerBatch
      b1 == IF maxEmails # 0 THEN [b EXCEPT !.config.maxEmailsPerBatch = maxEmails]
                             ELSE b
      r == runBatchProcessing(b1, "manual", originalMax)
  IN  IF r.lastRun.rejected THEN [r EXCEPT !.config.maxEmailsPerBatch = originalMax]
                            ELSE r

resetBatchStats(b) ==
  [b EXCEPT !.stats = [InitialBatchStats EXCEPT !.nextRunTime = b.stats.nextRunTime]]

\* What the caller of runBatchProcessing does once the cycle has returned.
Continue(b, i) ==
  LET k == b.inv[i]
      b1 == [b EXCEPT !.inv[i] = FreeSlot]
  IN  CASE k.kind = "start"  -> armTimer(b1)
        [] k.kind = "manual" -> [b1 EXCEPT !.config.maxEmailsPerBatch = k.originalMax]
        [] OTHER             -> b1

\* runBatchProcessing, lines 123-160: the statistics are updated unless
\* processEmails threw, and the flag is cleared in every case
finishCycle_NoFinally(b, i, thrown) ==
  LET k == b.inv[i]
      tasksCreated == processingStats.tasksCreated - k.statsBefore
      updated == IF thrown THEN b.stats
                 ELSE [b.stats EXCEPT !.totalEmailsProcessed = @ + k.results,
                                      !.totalTasksCreated = @ + tasksCreated,
                                      !.lastRunTime = TRUE,
                                      !.nextRunTime = IF b.interval THEN TRUE ELSE @,
                                      !.isRunning = FALSE]
  IN  Continue([b EXCEPT !.stats = updated], i)
finishCycle(b, i, thrown) ==
  LET k == b.inv[i]
      tasksCreated == processingStats.tasksCreated - k.statsBefore
      updated == IF thrown THEN b.stats
                 ELSE [b.stats EXCEPT !.totalEmailsProcessed = @ + k.results,
                                      !.totalTasksCreated = @ + tasksCreated,
                                      !.lastRunTime = TRUE,
                                      !.nextRunTime = IF b.interval THEN TRUE ELSE @]
  IN  Continue([b EXCEPT !.stats = [updated EXCEPT !.isRunning = FALSE]], i)

\* Bounds of the model: calls of runBatchProcessing per run, cycles in flight,
\* live timers (one is kept free for each startBatchProcessing still awaiting).
PendingStarts(b) == Cardinality({s \in Slots : b.inv[s].kind = "start"})
CanArm(b) == b.timers + PendingStarts(b) < MaxTimers
CanRun(b) ==
  /\ b.lastRun.n < MaxRuns
  /\ AlreadyRunning(b.stats) \/ \E s \in Slots : b.inv[s].pc = "free"
Startable(b) == b.config.enabled => CanArm(b) /\ (b.config.runOnStartup => CanRun(b))

pipelineRest == <<mail, labelIds, labelCache, tasks, lastTask, rules, processingStats,
                  aiInitialized, apiKey, call, nCalls, wroteTerminal, writeFailed,
                  classificationHistory, classified, ruleCall, aiCall, classifying,
                  batchCreated, healthy, loop>>

StartBatchProcessing ==
  /\ Startable(Batch)
  /\ SetBatch(startBatchProcessing(Batch))
  /\ UNCHANGED pipelineRest

StopBatchProcessing ==
  /\ SetBatch(stopBatchProcessing(Batch))
  /\ UNCHANGED pipelineRest

NewConfigs ==
  {[enabled |-> TRUE], [enabled |-> FALSE], [maxEmailsPerBatch |-> 1],
   [runOnStartup |-> FALSE]}

UpdateAllowed(b, newConfig) ==
  LET b1 == [b EXCEPT !.config = Merge(b.config, newConfig)]
  IN  IF b.config.enabled # b1.config.enabled
      THEN b1.config.enabled => Startable(b1)
      ELSE b1.config.enabled /\ b1.interval => Startable(stopBatchProcessing(b1))

UpdateBatchConfig(newConfig) ==
  /\ UpdateAllowed(Batch, newConfig)
  /\ SetBatch(updateBatchConfig(Batch, newConfig))
  /\ UNCHANGED pipelineRest

RunManualBatch(maxEmails) ==
  /\ CanRun(Batch)
  /\ SetBatch(runManualBatch(Batch, maxEmails))
  /\ UNCHANGED pipelineRest

ResetBatchStats ==
  /\ SetBatch(resetBatchStats(Batch))
  /\ UNCHANGED pipelineRest

\* A live timer fires: the callback calls runBatchProcessing.
Tick ==
  /\ timers > 0
  /\ CanRun(Batch)
  /\ SetBatch(runBatchProcessing(Batch, "tick", 0))
  /\ UNCHANGED pipelineRest

\* The batch query: unread messages carrying neither TodoAgent_Processed nor
\* TodoAgent_Skip, at most maxResults of them (every message of the model is
\* unread and recent).
EmailOrder == <<"e1", "e2">>
Terminal == {"TodoAgent_Processed", "TodoAgent_Skip"}
IsCandidate_NoRetry(e) ==
  NamesOf(labelIds[e]) \cap (Terminal \cup {"TodoAgent_Failed"}) = {}
IsCandidate_SkipIncluded(e) == "TodoAgent_Processed" \notin NamesOf(labelIds[e])
IsCandidate(e) == NamesOf(labelIds[e]) \cap Terminal = {}
Candidates(maxResults) ==
  LET all == SelectSeq(EmailOrder, IsCandidate)
  IN  SubSeq(all, 1, IF Len(all) < maxResults THEN Len(all) ELSE maxResults)

\* processEmails: getEmails answers with the candidates, or throws
CycleFetched(i, ok) ==
  /\ inv[i].pc = "fetch"
  /\ LET emails == Candidates(inv[i].maxResults)
     IN  IF ok /\ emails # <<>>
         THEN /\ inv' = [inv EXCEPT ![i].pc = "process", ![i].emails = emails]
              /\ UNCHANGED <<batchConfig, batchStats, batchInterval, timers, lastRun,
                             history>>
         ELSE SetBatch(finishCycle(Batch, i, ~ok))
  /\ UNCHANGED pipelineRest

\* What a processEmail call leaves behind, as processEmails sees it:
\*   created   a task, and TodoAgent_Processed on the message
\*   failed    no task, and TodoAgent_Failed on the message
\*   notFound  nothing: the message could not be fetched
ProcessOutcomes == {"created", "failed", "notFound"}

\* processEmails, lines 519-525: processEmail on the next message of the list
CycleProcess(i, out) ==
  /\ inv[i].pc = "process"
  /\ inv[i].emails # <<>>
  /\ LET e == Head(inv[i].emails)
         labelName == CASE out = "created" -> "TodoAgent_Processed"
                        [] out = "failed"  -> "TodoAgent_Failed"
                        [] OTHER           -> "none"
         r == addLabelToEmail(labelCache, labelIds, e, labelName, "ok")
         st == Bump(processingStats, "totalProcessed")
     IN  /\ tasks' = IF out = "created" THEN [tasks EXCEPT ![e] = @ + 1] ELSE tasks
         /\ lastTask' = IF out = "created"
                         THEN [lastTask EXCEPT ![e] = TaskMemo[mail[e]]] ELSE lastTask
         /\ labelIds' = IF labelName = "none" THEN labelIds ELSE r.labelIds
         /\ labelCache' = IF labelName = "none" THEN labelCache ELSE r.cache
         /\ processingStats' = IF out = "created" THEN Bump(st, "tasksCreated") ELSE st
         /\ inv' = [inv EXCEPT ![i].emails = Tail(@), ![i].results = @ + 1]
         /\ batchCreated' = IF out = "created" THEN batchCreated + 1 ELSE batchCreated
  /\ UNCHANGED <<mail, rules, aiInitialized, apiKey, call, nCalls, wroteTerminal, writeFailed,
                 classificationHistory, classified, ruleCall, aiCall, classifying, healthy,
                 batchConfig, batchStats, batchInterval, timers, lastRun, history, loop>>

\* processEmails returns after the last message: the cycle ends
CycleEnd(i) ==
  /\ inv[i].pc = "process"
  /\ inv[i].emails = <<>>
  /\ SetBatch(finishCycle(Batch, i, FALSE))
  /\ UNCHANGED pipelineRest

\* ------------------------------------------------------------ processEmails
\* The processEmails call: where it stands (pc), its maxResults, the list
\* getEmails returned (fetched), what is left of it (emails), the ids processEmail
\* was called on (started) and the results pushed (results), in order.
NoLoop == [pc |-> "idle", maxResults |-> 0, fetched |-> <<>>, emails |-> <<>>,
           started |-> <<>>, results |-> <<>>]

\* processEmails is called with the batch query
ProcessEmails(maxResults) ==
  /\ loop.pc = "idle"
  /\ loop' = [NoLoop EXCEPT !.pc = "fetch", !.maxResults = maxResults]
  /\ UNCHANGED <<pipelineVars, ruleCall, aiCall, classifying, batchCreated, healthy, batchVars>>

\* getEmails answers with the messages of the query, answers with nothing
\* because the provider request was not successful, or throws; processEmails
\* returns [] at once for an empty list and rethrows
GetEmailsOutcomes == {"ok", "unsuccessful", "throw"}

EmailsFetched(outcome) ==
  /\ loop.pc = "fetch"
  /\ LET emails == IF outcome = "ok" THEN Candidates(loop.maxResults) ELSE <<>>
     IN  loop' = [loop EXCEPT !.fetched = emails, !.emails = emails,
                              !.pc = IF outcome = "throw" THEN "threw"
                                     ELSE IF emails = <<>> THEN "returned" ELSE "call"]
  /\ UNCHANGED <<pipelineVars, ruleCall, aiCall, classifying, batchCreated, healthy, batchVars>>

\* the loop calls processEmail(email.id) on the next message and awaits it
LoopCall ==
  /\ loop.pc = "call"
  /\ loop.emails # <<>>
  /\ StartCall("manual", Head(loop.emails))
  /\ loop' = [loop EXCEPT !.pc = "wait", !.started = Append(@, Head(loop.emails))]

\* processEmail has returned: its result is pushed, and after the delay the loop
\* goes on
LoopTake_AbortOnFailure ==
  /\ loop.pc = "wait"
  /\ call["manual"].pc = "done"
  /\ loop' = [loop EXCEPT !.pc = "call",
                          !.emails = IF call["manual"].result.success THEN Tail(@) ELSE <<>>,
                          !.results = Append(@, [emailId |-> call["manual"].emailId,
                                                 success |-> call["manual"].result.success,
                                                 taskId |-> call["manual"].result.taskId])]
  /\ call' = [call EXCEPT !["manual"] = IdleCall]
  /\ UNCHANGED <<mail, labelIds, labelCache, tasks, lastTask, rules, processingStats,
                 aiInitialized, apiKey, nCalls, wroteTerminal, writeFailed, classificationHistory,
                 classified, ruleCall, aiCall, classifying, batchCreated, healthy, batchVars>>
LoopTake ==
  /\ loop.pc = "wait"
  /\ call["manual"].pc = "done"
  /\ loop' = [loop EXCEPT !.pc = "call", !.emails = Tail(@),
                          !.results = Append(@, [emailId |-> call["manual"].emailId,
                                                 success |-> call["manual"].result.success,
                                                 taskId |-> call["manual"].result.taskId])]
  /\ call' = [call EXCEPT !["manual"] = IdleCall]
  /\ UNCHANGED <<mail, labelIds, labelCache, tasks, lastTask, rules, processingStats,
                 aiInitialized, apiKey, nCalls, wroteTerminal, writeFailed, classificationHistory,
                 classified, ruleCall, aiCall, classifying, batchCreated, healthy, batchVars>>

\* the list is exhausted: processEmails returns its results
LoopReturn ==
  /\ loop.pc = "call"
  /\ loop.emails = <<>>
  /\ loop' = [loop EXCEPT !.pc = "returned"]
  /\ UNCHANGED <<pipelineVars, ruleCall, aiCall, classifying, batchCreated, healthy, batchVars>>

\* The webhook handler: processEmail(emailId) is started and not awaited
WebhookCall(e) ==
  /\ call["webhook"].pc = "idle"
  /\ StartCall("webhook", e)
  /\ UNCHANGED loop

\* ------------------------------------------------------- the specifications
Mailboxes == {[e \in EmailIds |-> IF e = "e1" THEN PlainMail ELSE NewsletterMail],
              [e \in EmailIds |-> IF e = "e1" THEN ReviewMail ELSE GithubMail]}

NoRuleCall == [emailId |-> "null", result |-> NoMatchResult, winner |-> 0,
               before |-> <<>>, label |-> "none", wrote |-> FALSE]

\* The batch module as it is loaded.
BatchIdle ==
  /\ batchConfig = InitialBatchConfig
  /\ batchStats = InitialBatchStats
  /\ batchInterval = FALSE
  /\ timers = 0
  /\ inv = [s \in Slots |-> FreeSlot]
  /\ lastRun = NoRun
  /\ history = NoHistory

\* No call was made yet: no label is cached, no call is in flight.
FreshPipeline ==
  /\ labelCache = {}
  /\ tasks = [e \in EmailIds |-> 0]
  /\ lastTask = [e \in EmailIds |-> NoTask]
  /\ loop = NoLoop
  /\ processingStats = ZeroStats
  /\ call = [c \in Callers |-> IdleCall]
  /\ nCalls = 0
  /\ wroteTerminal = {}
  /\ writeFailed = FALSE
  /\ ruleCall = NoRuleCall
  /\ classifying = NoClassifying
  /\ batchCreated = 0
  /\ healthy = FALSE
  /\ BatchIdle

\* A fresh process: nothing was classified yet.
FreshProcess ==
  /\ FreshPipeline
  /\ aiInitialized = FALSE
  /\ classificationHistory = <<>>
  /\ classified = NoneClassified

\* A fresh process on a mailbox whose messages carry no label yet.
Init ==
  /\ mail \in Mailboxes
  /\ rules = loadDefaultRules
  /\ apiKey \in BOOLEAN
  /\ labelIds = [e \in EmailIds |-> {}]
  /\ aiCall = NoAICall
  /\ FreshProcess

\* processEmail calls that do not overlap: a call starts when no other is in flight.
NoCallInFlight == \A c \in Callers : call[c].pc = "idle"

SequentialCall(c, e) == NoCallInFlight /\ StartCall(c, e) /\ UNCHANGED loop

Next ==
  \/ \E c \in SeqCallers, e \in EmailIds : SequentialCall(c, e)
  \/ \E c \in Callers, ok \in BOOLEAN : Fetched(c, ok)
  \/ \E c \in Callers, outcome \in AddLabelOutcomes : RuleLabel(c, outcome)
  \/ \E c \in Callers, ok \in BOOLEAN : Refetch(c, ok)
  \/ \E c \in Callers, outcome \in AddLabelOutcomes : RuleSkipMark(c, outcome)
  \/ \E c \in Callers, ok \in BOOLEAN : LabeledCreate(c, ok)
  \/ \E c \in Callers, outcome \in AddLabelOutcomes : LabeledMark(c, outcome)
  \/ \E c \in Callers, testOk \in BOOLEAN : AIInit(c, testOk)
  \/ \E c \in Callers, resp \in LLMResponses : AIClassify(c, resp)
  \/ \E c \in Callers, outcome \in AddLabelOutcomes : AILabel(c, outcome)
  \/ \E c \in Callers, ok \in BOOLEAN : AICreate(c, ok)
  \/ \E c \in Callers, outcome \in AddLabelOutcomes : AIMark(c, outcome)
  \/ \E c \in Callers, outcome \in AddLabelOutcomes : BasicSkipLabel(c, outcome)
  \/ \E c \in Callers, ok \in BOOLEAN : BasicCreate(c, ok)
  \/ \E c \in Callers, outcome \in AddLabelOutcomes : BasicTaskLabel(c, outcome)
  \/ \E c \in Callers, outcome \in AddLabelOutcomes : BasicMark(c, outcome)
  \/ \E c \in Callers : Finish(c)
  \/ Restart

Spec == Init /\ [][Next]_vars

\* The rule engine called directly, on every short message and every list of
\* three custom rules: the first with any of the short criteria, the second
\* above or below it and active or not, the third with the priority of the first.
CustomRule(id, priority, active, criteria, label) ==
  [id |-> id, priority |-> priority, active |-> active, criteria |-> criteria,
   actions |-> [label |-> label, skipAI |-> FALSE], matched |-> 0]

RuleLists ==
  {<<CustomRule("custom-1", p, TRUE, c1, "TodoAgent_Task"),
     CustomRule("custom-2", 6, a2, c2, "TodoAgent_Urgent"),
     CustomRule("custom-3", 5, TRUE, [NoCriteria EXCEPT !.bodyKeywords = <<"K">>],
                "TodoAgent_Meeting")>> :
     p \in {5, 7}, c1 \in SmallCriteria, a2 \in BOOLEAN,
     c2 \in {[NoCriteria EXCEPT !.subject = <<"S">>],
             [NoCriteria EXCEPT !.from = <<"A">>, !.excludeKeywords = <<"X">>]}}

\* the message the direct calls are made on
RuleCallIds == {"e1"}

InitRules ==
  /\ \E m \in SmallMails : mail = [e \in EmailIds |-> m]
  /\ rules \in RuleLists
  /\ apiKey = FALSE
  /\ labelIds = [e \in EmailIds |-> {}]
  /\ aiCall = NoAICall
  /\ FreshProcess

NextRules == \E e \in RuleCallIds, outcome \in AddLabelOutcomes : RulesCall(e, outcome)

SpecRules == InitRules /\ [][NextRules]_vars

\* The classifier called directly: the answer the language model will give to
\* the calls of a run is any of the answers above.
InitClassify ==
  /\ mail \in Mailboxes
  /\ rules = loadDefaultRules
  /\ apiKey \in BOOLEAN
  /\ labelIds = [e \in EmailIds |-> {}]
  /\ \E resp \in AllLLMResponses : aiCall = [NoAICall EXCEPT !.resp = resp]
  /\ FreshProcess

NextClassify ==
  \/ \E testOk \in BOOLEAN : InitializeAI(testOk)
  \/ \E e \in EmailIds : ClassifyEmail(e)

SpecClassify == InitClassify /\ [][NextClassify]_vars

\* The classifier called directly in a process that has recorded no, 999 or
\* 1000 classifications of e1 before: the history is empty, one short of its
\* capacity, or full.
PriorEntry(k) ==
  [emailId |-> "e1", classification |-> "TodoAgent_Skip", confidence |-> 900,
   timestamp |-> k]

InitHistory ==
  /\ mail \in Mailboxes
  /\ rules = loadDefaultRules
  /\ labelIds = [e \in EmailIds |-> {}]
  /\ \E resp \in LLMResponses : aiCall = [NoAICall EXCEPT !.resp = resp]
  /\ FreshPipeline
  /\ \E n \in {0, HistoryCapacity - 1, HistoryCapacity} :
       /\ classificationHistory = [k \in 1..n |-> PriorEntry(k)]
       /\ classified = [total |-> n, sinceClear |-> n]
       /\ apiKey \in {n > 0, TRUE}
       /\ aiInitialized = (n > 0)

NextHistory ==
  \/ \E testOk \in BOOLEAN : InitializeAI(testOk)
  \/ \E e \in EmailIds : ClassifyEmail(e)
  \/ ClearHistory

SpecHistory == InitHistory /\ [][NextHistory]_vars

\* classifyEmails called on no email, on fewer emails than a group holds and on
\* more, on a service that is initialized or not; each call of a group completes
\* at any time; the requests to the language model of a run all fail, or are all
\* answered (aiCall.resp).
EmailLists ==
  {<<>>, <<"e1", "e2">>, <<"e1", "e2", "e1", "e2", "e1", "e2">>}

GroupResponses ==
  {NoAnswer("network"),
   Answer(TRUE, "TodoAgent_Urgent", [isNumber |-> TRUE, value |-> 900], "high",
          [present |-> TRUE, title |-> "", description |-> "", dueString |-> "",
           priority |-> 4, category |-> "meeting"])}

InitGroups ==
  /\ mail \in Mailboxes
  /\ rules = loadDefaultRules
  /\ apiKey = TRUE
  /\ labelIds = [e \in EmailIds |-> {}]
  /\ \E resp \in GroupResponses : aiCall = [NoAICall EXCEPT !.resp = resp]
  /\ FreshPipeline
  /\ aiInitialized \in BOOLEAN
  /\ classificationHistory = <<>>
  /\ classified = NoneClassified

NextGroups ==
  \/ \E emails \in EmailLists : ClassifyEmails(emails)
  \/ IssueGroup
  \/ \E k \in 1..6 : CallDone(k, aiCall.resp)
  \/ GroupDone

SpecGroups == InitGroups /\ [][NextGroups]_vars

\* The batch scheduler: the exported operations in any order and at any time,
\* timer ticks, and the steps of the cycles in flight. The process starts on a
\* mailbox whose second message was given TodoAgent_Skip by an earlier process.
InitBatch ==
  /\ mail = [e \in EmailIds |-> IF e = "e1" THEN PlainMail ELSE NewsletterMail]
  /\ rules = loadDefaultRules
  /\ apiKey = FALSE
  /\ labelIds = [e \in EmailIds |->
                   IF e = "e2" THEN {LabelIdOf("TodoAgent_Skip")} ELSE {}]
  /\ aiCall = NoAICall
  /\ FreshProcess

NextBatch ==
  \/ StartBatchProcessing
  \/ StopBatchProcessing
  \/ \E newConfig \in NewConfigs : UpdateBatchConfig(newConfig)
  \/ \E maxEmails \in {0, 1} : RunManualBatch(maxEmails)
  \/ ResetBatchStats
  \/ Tick
  \/ \E i \in Slots, ok \in BOOLEAN : CycleFetched(i, ok)
  \/ \E i \in Slots, out \in ProcessOutcomes : CycleProcess(i, out)
  \/ \E i \in Slots : CycleEnd(i)

SpecBatch == InitBatch /\ [][NextBatch]_vars

\* The batch module when every request of a cycle in flight is answered: the
\* awaits of runBatchProcessing (the query, each processEmail) all return.
SpecBatchFair ==
  /\ SpecBatch
  /\ WF_vars(\E i \in Slots, ok \in BOOLEAN : CycleFetched(i, ok))
  /\ WF_vars(\E i \in Slots, out \in ProcessOutcomes : CycleProcess(i, out))
  /\ WF_vars(\E i \in Slots : CycleEnd(i))

\* The scheduler while the provider and the tracker recover: requests fail at
\* will until the last failure is past (Recover), and succeed afterwards. The
\* mailbox holds a fresh message and one that an earlier run left with
\* TodoAgent_Failed.
Recover ==
  /\ ~healthy
  /\ healthy' = TRUE
  /\ UNCHANGED <<pipelineVars, ruleCall, aiCall, classifying, batchCreated, batchVars, loop>>

RetryFetched(i, ok) == (healthy => ok) /\ CycleFetched(i, ok)
RetryProcess(i, out) == (healthy => out = "created") /\ CycleProcess(i, out)

InitRetry ==
  /\ mail = [e \in EmailIds |-> IF e = "e1" THEN PlainMail ELSE NewsletterMail]
  /\ rules = loadDefaultRules
  /\ apiKey = FALSE
  /\ labelIds = [e \in EmailIds |->
                   IF e = "e2" THEN {LabelIdOf("TodoAgent_Failed")} ELSE {}]
  /\ aiCall = NoAICall
  /\ FreshProcess

NextRetry ==
  \/ StartBatchProcessing
  \/ Tick
  \/ Recover
  \/ \E i \in Slots, ok \in BOOLEAN : RetryFetched(i, ok)
  \/ \E i \in Slots, out \in ProcessOutcomes : RetryProcess(i, out)
  \/ \E i \in Slots : CycleEnd(i)

\* The awaits of a cycle in flight all return, and an armed timer fires.
SpecRetry ==
  /\ InitRetry /\ [][NextRetry]_vars
  /\ WF_vars(Tick)
  /\ WF_vars(\E i \in Slots, ok \in BOOLEAN : RetryFetched(i, ok))
  /\ WF_vars(\E i \in Slots, out \in ProcessOutcomes : RetryProcess(i, out))
  /\ WF_vars(\E i \in Slots : CycleEnd(i))

\* processEmails on a mailbox of two unlabelled messages, without an API key,
\* while the webhook delivers messages.
InitEmails ==
  /\ mail \in Mailboxes
  /\ rules = loadDefaultRules
  /\ apiKey = FALSE
  /\ labelIds = [e \in EmailIds |-> {}]
  /\ aiCall = NoAICall
  /\ FreshProcess

NextEmails ==
  \/ \E maxResults \in {1, 2} : ProcessEmails(maxResults)
  \/ \E outcome \in GetEmailsOutcomes : EmailsFetched(outcome)
  \/ LoopCall
  \/ LoopTake
  \/ LoopReturn
  \/ \E e \in EmailIds : WebhookCall(e)
  \/ \E c \in Callers, ok \in BOOLEAN : Fetched(c, ok)
  \/ \E c \in Callers, outcome \in AddLabelOutcomes : RuleLabel(c, outcome)
  \/ \E c \in Callers, ok \in BOOLEAN : Refetch(c, ok)
  \/ \E c \in Callers, outcome \in AddLabelOutcomes : RuleSkipMark(c, outcome)
  \/ \E c \in Callers, ok \in BOOLEAN : LabeledCreate(c, ok)
  \/ \E c \in Callers, outcome \in AddLabelOutcomes : LabeledMark(c, outcome)
  \/ \E c \in Callers, outcome \in AddLabelOutcomes : BasicSkipLabel(c, outcome)
  \/ \E c \in Callers, ok \in BOOLEAN : BasicCreate(c, ok)
  \/ \E c \in Callers, outcome \in AddLabelOutcomes : BasicTaskLabel(c, outcome)
  \/ \E c \in Callers, outcome \in AddLabelOutcomes : BasicMark(c, outcome)
  \/ Finish("webhook")

SpecEmails == InitEmails /\ [][NextEmails]_vars

\* The scheduler's cycles while the webhook delivers messages and the counters
\* of processingStats are reset. A processEmail call is taken by its outcome, as
\* in CycleProcess; a message that carries a terminal label is skipped (or not
\* found), any other is processed.
MixedOutcomes == ProcessOutcomes \cup {"skipped"}

Allowed(e, out) ==
  IF NamesOf(labelIds[e]) \cap Terminal # {}
    THEN out \in {"skipped", "notFound"}
    ELSE out \in ProcessOutcomes

\* processEmail on a message with a terminal label: counted and skipped.
skipProcessed(st) == Bump(Bump(st, "totalProcessed"), "skipped")

MixedProcess(i, out) ==
  /\ inv[i].pc = "process"
  /\ inv[i].emails # <<>>
  /\ Allowed(Head(inv[i].emails), out)
  /\ IF out = "skipped"
       THEN /\ processingStats' = skipProcessed(processingStats)
            /\ inv' = [inv EXCEPT ![i].emails = Tail(@), ![i].results = @ + 1]
            /\ UNCHANGED <<mail, labelIds, labelCache, tasks, lastTask, rules, aiInitialized,
                           apiKey, call, nCalls, wroteTerminal, writeFailed,
                           classificationHistory, classified, ruleCall, aiCall, classifying,
                           batchCreated, healthy, batchConfig, batchStats, batchInterval,
                           timers, lastRun, history, loop>>
       ELSE CycleProcess(i, out)

\* The webhook's notification for the message e: processEmail(e), not awaited,
\* taken by its outcome.
WebhookProcess(e, out) ==
  /\ nCalls < MaxCalls
  /\ Allowed(e, out)
  /\ nCalls' = nCalls + 1
  /\ LET labelName == CASE out = "created" -> "TodoAgent_Processed"
                        [] out = "failed"  -> "TodoAgent_Failed"
                        [] OTHER           -> "none"
         r == addLabelToEmail(labelCache, labelIds, e, labelName, "ok")
         st == Bump(processingStats, "totalProcessed")
     IN  /\ tasks' = IF out = "created" THEN [tasks EXCEPT ![e] = @ + 1] ELSE tasks
         /\ lastTask' = IF out = "created"
                         THEN [lastTask EXCEPT ![e] = TaskMemo[mail[e]]] ELSE lastTask
         /\ labelIds' = IF labelName = "none" THEN labelIds ELSE r.labelIds
         /\ labelCache' = IF labelName = "none" THEN labelCache ELSE r.cache
         /\ processingStats' = CASE out = "created" -> Bump(st, "tasksCreated")
                                 [] out = "skipped" -> Bump(st, "skipped")
                                 [] OTHER           -> st
  /\ UNCHANGED <<mail, rules, aiInitialized, apiKey, call, wroteTerminal, writeFailed,
                 classificationHistory, classified, ruleCall, aiCall, classifying,
                 batchCreated, healthy, batchVars, loop>>

InitMixed ==
  /\ mail = [e \in EmailIds |-> IF e = "e1" THEN PlainMail ELSE NewsletterMail]
  /\ rules = loadDefaultRules
  /\ apiKey = FALSE
  /\ labelIds = [e \in EmailIds |-> {}]
  /\ aiCall = NoAICall
  /\ FreshProcess

NextMixed ==
  \/ StartBatchProcessing
  \/ Tick
  \/ \E i \in Slots, ok \in BOOLEAN : CycleFetched(i, ok)
  \/ \E i \in Slots, out \in MixedOutcomes : MixedProcess(i, out)
  \/ \E i \in Slots : CycleEnd(i)
  \/ \E e \in EmailIds, out \in MixedOutcomes : WebhookProcess(e, out)
  \/ ResetProcessingStats

SpecMixed == InitMixed /\ [][NextMixed]_vars

\* Concurrent processEmail calls (the webhook's and the loop's) while the
\* counters of processingStats are reset.
NextStats == NextEmails \/ ResetProcessingStats

SpecStats == InitEmails /\ [][NextStats]_vars

\* =================================================================== claims
\* The labels the provider holds on a message, by name.
Carries(e) == NamesOf(labelIds[e])

\* C1 (for the calls whose fetch of the email succeeds): a processEmail call on an
\* email that carries TodoAgent_Processed or TodoAgent_Skip, whatever the label
\* cache holds, creates no task, writes no label, runs neither the rule engine
\* nor the AI classifier, and returns success.
C1_TerminalIsNeverReprocessed ==
  \A c \in Callers :
    call[c].pc = "done" /\ call[c].fetched /\ call[c].carried \cap Terminal # {}
      => /\ call[c].created = 0
         /\ call[c].attempted = {}
         /\ ~call[c].ranRules
         /\ ~call[c].ranAI
         /\ call[c].result.success

\* C2, as the code has it: when this process wrote TodoAgent_Processed or
\* TodoAgent_Skip on an email in an earlier call, a later call on the same id
\* creates no task and leaves the labels of the email as they were; it returns
\* success without a task id when it can fetch the email, and failure otherwise.
C2_SecondCallChangesNothing ==
  \A c \in Callers :
    call[c].pc = "done" /\ call[c].prior
      => /\ call[c].created = 0
         /\ call[c].attempted = {}
         /\ labelIds[call[c].emailId] = call[c].before
         /\ ~call[c].result.taskId
         /\ call[c].result.success <=> call[c].fetched

\* C2 as claimed: the second call creates no task, leaves the labels unchanged
\* and returns success without a task id.
C2_SecondCallSucceeds ==
  \A c \in Callers :
    call[c].pc = "done" /\ call[c].prior
      => /\ call[c].created = 0
         /\ labelIds[call[c].emailId] = call[c].before
         /\ call[c].result.success
         /\ ~call[c].result.taskId

\* A second call on an email for which the first created a task and wrote
\* TodoAgent_Processed has returned "Already processed".
C2_Witness ==
  \E c \in Callers :
    /\ call[c].pc = "done" /\ call[c].prior /\ call[c].fetched
    /\ call[c].result.success
    /\ tasks[call[c].emailId] = 1
    /\ "TodoAgent_Processed" \in Carries(call[c].emailId)

\* C3: over the calls for one email, which do not overlap, at most one task is
\* ever created for that email, whichever task creations and label writes fail.
C3_AtMostOneTask == \A e \in EmailIds : tasks[e] <= 1

\* C4, as the code has it: a call that fetches an email whose only label is
\* TodoAgent_Failed is not short-circuited: the rules are evaluated and, when no
\* rule matches, the AI or the basic classification runs; when a task is then
\* created the call writes TodoAgent_Processed, and the email ends the call
\* carrying it exactly when that write succeeded.
C4_FailedIsRetried ==
  \A c \in Callers :
    call[c].pc = "done" /\ call[c].fetched /\ call[c].carried = {"TodoAgent_Failed"}
      => /\ call[c].ranRules
         /\ call[c].rule = 0 => call[c].ranAI \/ call[c].ranBasic
         /\ call[c].created > 0 =>
              /\ "TodoAgent_Processed" \in call[c].attempted
              /\ "TodoAgent_Processed" \in call[c].wrote
                   <=> "TodoAgent_Processed" \in Carries(call[c].emailId)

\* C4 as claimed (for the calls whose fetch of the email succeeds): a call on an
\* email whose only label is TodoAgent_Failed evaluates the rules, classifies
\* when no rule matches, and leaves the email carrying TodoAgent_Processed when
\* a task was created.
C4_FailedReachesProcessed ==
  \A c \in Callers :
    call[c].pc = "done" /\ call[c].fetched /\ call[c].carried = {"TodoAgent_Failed"}
      => /\ call[c].ranRules
         /\ call[c].rule = 0 => call[c].ranAI \/ call[c].ranBasic
         /\ call[c].created > 0 => "TodoAgent_Processed" \in Carries(call[c].emailId)

\* A retry of an email that carried only TodoAgent_Failed has created the task
\* and left TodoAgent_Processed on the email.
C4_Witness ==
  \E c \in Callers :
    /\ call[c].pc = "done" /\ call[c].fetched
    /\ call[c].carried = {"TodoAgent_Failed"}
    /\ call[c].ranRules /\ call[c].created > 0
    /\ "TodoAgent_Processed" \in Carries(call[c].emailId)

\* C5: when a call on an email that carried TodoAgent_Failed has written
\* TodoAgent_Processed or TodoAgent_Skip, the email no longer carries
\* TodoAgent_Failed.
C5_FailedIsCleared ==
  \A c \in Callers :
    /\ call[c].pc = "done"
    /\ "TodoAgent_Failed" \in call[c].carried
    /\ call[c].wrote \cap Terminal # {}
    => "TodoAgent_Failed" \notin Carries(call[c].emailId)

\* C6: at every moment at most one batch cycle is between setting and clearing
\* isRunning.
C6_OneCycleAtATime == Cardinality({i \in Slots : inv[i].pc # "free"}) <= 1

\* C7: a runBatchProcessing call made while isRunning is true starts no cycle
\* (nothing is fetched or processed), changes no batch counter, leaves isRunning
\* set, and returns the stats of the cycle in progress.
C7_RunWhileRunningIsNoOp ==
  [][lastRun'.n # lastRun.n /\ batchStats.isRunning
       => /\ lastRun'.rejected
          /\ inv' = inv
          /\ batchStats'.isRunning
          /\ batchStats'.totalRuns = batchStats.totalRuns
          /\ batchStats'.totalEmailsProcessed = batchStats.totalEmailsProcessed
          /\ batchStats'.totalTasksCreated = batchStats.totalTasksCreated
          /\ batchStats'.lastRunTime = batchStats.lastRunTime
          /\ lastRun'.returned.isRunning
          /\ lastRun'.returned.totalRuns = batchStats.totalRuns
          /\ lastRun'.returned.totalEmailsProcessed = batchStats.totalEmailsProcessed
          /\ lastRun'.returned.totalTasksCreated = batchStats.totalTasksCreated
          /\ UNCHANGED <<labelIds, labelCache, tasks, processingStats>>]_vars

\* The last runBatchProcessing call returned at the guard while a cycle, begun
\* by an earlier call, is still in flight.
C7_Witness ==
  /\ lastRun.rejected
  /\ batchStats.isRunning
  /\ batchStats.totalRuns = 1
  /\ \E i \in Slots : inv[i].pc # "free"

\* The active rules that match the message e.
Matching(e) ==
  {i \in DOMAIN rules : rules[i].active /\ evaluateRule(getEmailById(e), rules[i]).matched}

HighestWins(e, w, matching) ==
  /\ w \in matching
  /\ \A j \in matching : rules[j].priority <= rules[w].priority
  /\ ruleCall.result.matched
  /\ ruleCall.result.rule = rules[w].id
  /\ ruleCall.label = rules[w].actions.label
  /\ ruleCall.wrote => LabelIdOf(rules[w].actions.label) \in labelIds[e]
  /\ \A j \in DOMAIN rules :
       rules[j].matched = ruleCall.before[j] + (IF j = w THEN 1 ELSE 0)

\* C8: when rules match the email, processEmailWithRules returns the matching
\* active rule of highest priority and writes its label, counts the match on
\* that rule and leaves the counter of every other rule unchanged.
C8_HighestPriorityRuleWins ==
  ruleCall.emailId # "null" /\ Matching(ruleCall.emailId) # {}
    => HighestWins(ruleCall.emailId, ruleCall.winner, Matching(ruleCall.emailId))

\* Two rules match, and the one that won stands second in the list, above the
\* first by its priority.
C8_Witness ==
  /\ ruleCall.emailId # "null"
  /\ {1, 2} \subseteq Matching(ruleCall.emailId)
  /\ ruleCall.winner = 2
  /\ rules[1].priority < rules[2].priority
  /\ ruleCall.wrote

\* Some exclude keyword of the criteria occurs, whatever the case of the
\* letters, in the subject, the body or the snippet of the email.
ExcludeKeywordOccurs(email, c) ==
  \E n \in DOMAIN c.excludeKeywords :
    \E text \in {email.subject, email.body, email.snippet} :
      includes(Lower(text), Lower(c.excludeKeywords[n]))

Vetoed(i, verdict) ==
  /\ ~verdict.matched
  /\ verdict.confidence = ZeroConfidence
  /\ rules[i].matched = 0
  /\ ruleCall.winner # i

\* C9: a rule one of whose exclude keywords occurs in the email is evaluated to
\* matched = false with confidence 0; its counter is never incremented and it is
\* never the rule whose label is written.
C9_ExclusionVeto ==
  \A e \in RuleCallIds : \A i \in DOMAIN rules :
    ExcludeKeywordOccurs(mail[e], rules[i].criteria)
      => Vetoed(i, evaluateRule(getEmailById(e), rules[i]))

\* The number of declared criteria, and of satisfied ones.
DeclaredCount(c) ==
  Count(Declared(c.from)) + Count(Declared(c.fromDomain))
    + Count(Declared(c.subject)) + Count(Declared(c.bodyKeywords))

SatisfiedCount(email, c) ==
  Count(Declared(c.from) /\ fromMatches(email, c))
    + Count(Declared(c.fromDomain) /\ fromDomainMatches(email, c))
    + Count(Declared(c.subject) /\ subjectMatches(email, c))
    + Count(Declared(c.bodyKeywords) /\ bodyKeywordsMatch(email, c))

\* A call was made on an email in which an exclude keyword of the first rule
\* occurs while every criterion the rule declares is satisfied.
C9_Witness ==
  /\ ruleCall.emailId = "e1"
  /\ ExcludeKeywordOccurs(mail["e1"], rules[1].criteria)
  /\ DeclaredCount(rules[1].criteria) >= 2
  /\ SatisfiedCount(mail["e1"], rules[1].criteria) = DeclaredCount(rules[1].criteria)

Threshold(t, m, verdict) ==
  /\ verdict.matched <=> (m >= 1 /\ 2 * m >= t)
  /\ t = 2 /\ m = 1 => verdict.matched
  /\ t = 3 /\ m = 1 => ~verdict.matched
  /\ t = 0 => ~verdict.matched
  /\ verdict.confidence = IF t > 0 THEN Confidence(m, t) ELSE ZeroConfidence

\* C10: without an exclusion veto, a rule with t declared criteria of which m are
\* satisfied is matched exactly when m >= 1 and 2m >= t, with confidence m/t.
C10_ConfidenceThreshold ==
  \A e \in RuleCallIds : \A i \in DOMAIN rules :
    ~ExcludeKeywordOccurs(mail[e], rules[i].criteria)
      => Threshold(DeclaredCount(rules[i].criteria),
                   SatisfiedCount(mail[e], rules[i].criteria),
                   evaluateRule(getEmailById(e), rules[i]))

\* The rule that won a call declares two criteria of which one is satisfied.
C10_Witness ==
  /\ ruleCall.emailId = "e1"
  /\ ruleCall.winner = 1
  /\ DeclaredCount(rules[1].criteria) = 2
  /\ SatisfiedCount(mail["e1"], rules[1].criteria) = 1
  /\ ~ExcludeKeywordOccurs(mail["e1"], rules[1].criteria)

\* C11: when the classifier is initialized and the request to the language model
\* fails (network error, non-OK response, unparsable response), classifyEmail
\* does not throw and returns isActionable = false, TodoAgent_Skip and a
\* confidence of at most 0.2.
C11_FallbackVerdict ==
  aiCall.n > 0 /\ aiCall.initialized /\ aiCall.resp.failure # "none"
    => /\ ~aiCall.threw
       /\ ~aiCall.verdict.isActionable
       /\ aiCall.verdict.suggestedLabel = "TodoAgent_Skip"
       /\ aiCall.verdict.confidence <= 200

\* An initialized classifier was called, the API answered with a status that is
\* not OK, and the fallback verdict came back.
C11_Witness ==
  /\ aiCall.n > 0 /\ aiCall.initialized /\ aiInitialized
  /\ aiCall.resp.failure = "status"
  /\ ~aiCall.threw
  /\ aiCall.verdict.confidence = 100


\* C12: when no rule decided the email and the classifier is unavailable (no
\* API key, initialization failed) or the request to the language model
\* failed, processEmail handles the email by the basic classification, and
\* TodoAgent_Skip is written only when the denylist matches.
C12_OutageFallsBackToBasic ==
  \A c \in Callers :
    /\ call[c].pc = "done" /\ call[c].ranRules /\ call[c].rule = 0
    /\ call[c].outage # "none"
    => /\ call[c].ranBasic
       /\ "TodoAgent_Skip" \in call[c].attempted => shouldSkipEmail(call[c].email)


\* C13: a call on an email that carries an action label and no terminal label
\* creates its task with the priority of the label (Important 4, Urgent 4,
\* Meeting 3, Task 2), which is the priority processLabeledEmail computes.
C13_PriorityFromLabel ==
  \A c \in Callers :
    /\ call[c].pc = "done" /\ call[c].fetched /\ ~call[c].ranRules
    /\ call[c].carried \cap ActionLabelSet # {}
    /\ call[c].carried \cap Terminal = {}
    /\ call[c].created = 1
    => /\ call[c].labeled.priority =
            (IF "TodoAgent_Important" \in call[c].carried THEN 4
             ELSE IF "TodoAgent_Urgent" \in call[c].carried THEN 4
             ELSE IF "TodoAgent_Meeting" \in call[c].carried THEN 3 ELSE 2)
       /\ lastTask[call[c].emailId].priority = call[c].labeled.priority


\* C14: a call on an email that carries an action label and no terminal label
\* evaluates no rule and runs neither the AI nor the basic classification, and
\* when its task is created it writes TodoAgent_Processed.
C14_LabelledSkipsEvaluation ==
  \A c \in Callers :
    /\ call[c].pc = "done" /\ call[c].fetched
    /\ call[c].carried \cap ActionLabelSet # {}
    /\ call[c].carried \cap Terminal = {}
    => /\ ~call[c].ranRules /\ ~call[c].ranAI /\ ~call[c].ranBasic
       /\ call[c].created <= 1
       /\ call[c].created = 1 => "TodoAgent_Processed" \in call[c].attempted


\* C15: a call on an unlabelled email whose winning rule has skipAI issues the
\* write of TodoAgent_Skip (the email carries it when a write succeeds), creates
\* no task, runs neither the AI nor the basic classification, counts the email
\* as skipped once, in its last step, and returns success without a task id.
SkipRuleCall(cr) ==
  cr.carried = {} /\ cr.rule # 0 /\ loadDefaultRules[cr.rule].actions.skipAI

BasicCall(cr) ==
  /\ cr.pc = "done" /\ cr.ranRules /\ cr.rule = 0
  /\ cr.outage \in {"noKey", "initFailed"}

\* C16 as claimed: such a call creates exactly one task, applies TodoAgent_Task,
\* writes TodoAgent_Processed and returns success with the task id when no
\* denylist keyword occurs in the sender or the subject, and writes
\* TodoAgent_Skip and creates no task when one does.
C16_BasicCreatesOneTask ==
  \A c \in Callers :
    BasicCall(call[c])
    => IF shouldSkipEmail(call[c].email)
       THEN "TodoAgent_Skip" \in call[c].attempted /\ call[c].created = 0
       ELSE /\ call[c].created = 1
            /\ {"TodoAgent_Task", "TodoAgent_Processed"} \subseteq call[c].attempted
            /\ call[c].result.success /\ call[c].result.taskId

\* C16, amended: such a call runs the basic classification. Without a denylist
\* keyword it creates at most one task: when the creation succeeds it issues the
\* writes of TodoAgent_Task and TodoAgent_Processed and returns success with the
\* task id, and when the creation fails it issues the write of TodoAgent_Failed
\* and returns failure without a task id. With a denylist keyword it issues the
\* write of TodoAgent_Skip, creates no task and returns success without a task id.
C16_BasicClassification ==
  \A c \in Callers :
    BasicCall(call[c])
    => /\ call[c].ranBasic
       /\ IF shouldSkipEmail(call[c].email)
          THEN /\ call[c].attempted = {"TodoAgent_Skip"} /\ call[c].created = 0
               /\ call[c].result.success /\ ~call[c].result.taskId
          ELSE /\ call[c].created <= 1
               /\ call[c].created = 1
                    => /\ call[c].attempted = {"TodoAgent_Task", "TodoAgent_Processed"}
                       /\ call[c].result.success /\ call[c].result.taskId
               /\ call[c].created = 0
                    => /\ call[c].attempted = {"TodoAgent_Failed"}
                       /\ ~call[c].result.success /\ ~call[c].result.taskId

C16_Witness ==
  \E c \in Callers :
    /\ BasicCall(call[c]) /\ ~shouldSkipEmail(call[c].email)
    /\ call[c].created = 1 /\ tasks[call[c].emailId] = 1
    /\ {"TodoAgent_Task", "TodoAgent_Processed"} \subseteq NamesOf(labelIds[call[c].emailId])
    /\ call[c].result.taskId


\* C17: a call that cannot fetch its email returns failure without a task id
\* and has no side effect: no label written, no task created, no rule counter
\* and no processing counter changed (the elapsed time is not modelled). Stated
\* for the first call of the process, which starts from counters at zero.
C17_FetchFailureHasNoEffect ==
  \A c \in Callers :
    call[c].pc = "done" /\ ~call[c].fetched /\ nCalls = 1
    => /\ ~call[c].result.success /\ ~call[c].result.taskId
       /\ call[c].attempted = {} /\ labelIds[call[c].emailId] = call[c].before
       /\ call[c].created = 0 /\ \A e \in EmailIds : tasks[e] = 0
       /\ rules = loadDefaultRules
       /\ processingStats = ZeroStats


\* C18: from a return of stopBatchProcessing to the next call of
\* startBatchProcessing, no timer tick starts a cycle and nextRunTime stays
\* undefined, whatever was in flight when the scheduler was stopped.
TickStartsCycle == \E s \in Slots : inv'[s].kind = "tick" /\ inv[s].kind # "tick"

C18_StoppedStaysStopped ==
  [][history'.stopped
       => /\ ~batchStats'.nextRunTime
          /\ history.stopped => ~TickStartsCycle]_vars


\* C19: once no runManualBatch call is in flight, maxEmailsPerBatch is the value
\* configured last (the initial one, or that of the last updateBatchConfig that
\* gave one, even one issued during a manual run).
ManualInFlight == \E s \in Slots : inv[s].kind = "manual"

C19_ManualCapIsRestored ==
  ~ManualInFlight => batchConfig.maxEmailsPerBatch = history.configuredMax


\* C20: when the verdict of the AI is actionable and has task data, the task
\* sent to the tracker is built from that task data (title, description,
\* priority, due hint), the suggested label is applied, and when the task is
\* created TodoAgent_Processed is written and the result carries the task id.
C20_TaskFromVerdict ==
  \A c \in Callers :
    /\ call[c].pc = "done" /\ call[c].ranAI
    /\ call[c].verdict.isActionable /\ call[c].verdict.taskData.present
    /\ call[c].created = 1
    => /\ lastTask[call[c].emailId].content = call[c].verdict.taskData.title
       /\ lastTask[call[c].emailId].description = trim(call[c].verdict.taskData.description)
       /\ lastTask[call[c].emailId].priority = call[c].verdict.taskData.priority
       /\ lastTask[call[c].emailId].due_string = trim(call[c].verdict.taskData.dueString)
       /\ call[c].verdict.suggestedLabel \in call[c].attempted
       /\ "TodoAgent_Processed" \in call[c].attempted
       /\ call[c].result.success /\ call[c].result.taskId


\* C21: a call whose AI verdict is not actionable issues the write of
\* TodoAgent_Skip, creates no task, writes neither a category label nor
\* TodoAgent_Processed, counts the email as skipped once, in its last step, and
\* returns success without a task id.
NotActionableCall(cr) == cr.ranAI /\ ~cr.verdict.isActionable

C21_NotActionableSkips ==
  [][\A c \in Callers :
       call'[c] # call[c] /\ NotActionableCall(call'[c])
       => /\ processingStats'.skipped =
               processingStats.skipped + (IF call'[c].pc = "done" THEN 1 ELSE 0)
          /\ tasks' = tasks /\ call'[c].created = 0
          /\ call'[c].pc = "done"
               => /\ "TodoAgent_Skip" \in call'[c].attempted
                  /\ call'[c].attempted \cap (ActionLabelSet \cup {"TodoAgent_Processed"}) = {}
                  /\ call'[c].result.success /\ ~call'[c].result.taskId]_vars


\* C22: in each task-creation path, a call whose task-tracker call failed issues
\* the write of TodoAgent_Failed and not that of TodoAgent_Processed, leaves
\* tasksCreated alone, returns failure with the tracker's error and no task id,
\* and leaves the email eligible for retry: it has put no terminal label on it.
CreationFailed(cr) ==
  cr.pc \in {"labeled_mark_failed", "ai_mark_failed", "basic_mark_failed"}

C22_FailedCreationIsRetried ==
  [][\A c \in Callers :
       CreationFailed(call[c]) /\ call'[c] # call[c]
       => /\ call'[c].pc = "done"
          /\ "TodoAgent_Failed" \in call'[c].attempted
          /\ "TodoAgent_Processed" \notin call'[c].attempted
          /\ processingStats'.tasksCreated = processingStats.tasksCreated
          /\ call'[c].created = 0 /\ tasks' = tasks
          /\ ~call'[c].result.success /\ ~call'[c].result.taskId
          /\ call'[c].result.error = "task creation failed"
          /\ call'[c].wrote \cap Terminal = {}]_vars


\* C23: a label write that fails does not change the outcome of the call. The
\* step that ends a call which created its task returns success with the task
\* id and counts the task, and the step that ends a call whose task creation
\* failed returns the failure with its error, whatever became of the label
\* writes of the call.
C23_WriteFailureKeepsOutcome ==
  [][\A c \in Callers :
       call[c].pc # "done" /\ call'[c].pc = "done"
       => /\ call'[c].created = 1
               => /\ call'[c].result.success /\ call'[c].result.taskId
                  /\ processingStats'.tasksCreated = processingStats.tasksCreated + 1
          /\ CreationFailed(call[c])
               => /\ ~call'[c].result.success /\ ~call'[c].result.taskId
                  /\ call'[c].result.error = "task creation failed"
                  /\ processingStats'.tasksCreated = processingStats.tasksCreated]_vars

C23_Witness ==
  \E c \in Callers :
    /\ call[c].pc = "done" /\ call[c].created = 1
    /\ "TodoAgent_Processed" \in call[c].attempted \ call[c].wrote
    /\ "TodoAgent_Processed" \notin NamesOf(labelIds[call[c].emailId])
    /\ call[c].result.success /\ call[c].result.taskId
    /\ processingStats.tasksCreated = 1


\* C24: processEmails calls processEmail once per message of the fetched list,
\* one call after the other in list order, and returns one result per message in
\* the same order, whatever the calls return.
IdsOf(results) == [i \in DOMAIN results |-> results[i].emailId]

C24_OneResultPerEmail ==
  /\ loop.pc # "threw" =>
       /\ \E n \in 0..Len(loop.fetched) :
            /\ loop.started = SubSeq(loop.fetched, 1, n)
            /\ loop.emails = SubSeq(loop.fetched, Len(loop.results) + 1, Len(loop.fetched))
            /\ Len(loop.results) = (IF loop.pc = "wait" THEN n - 1 ELSE n)
       /\ IdsOf(loop.results) = SubSeq(loop.fetched, 1, Len(loop.results))
  /\ loop.pc = "wait" <=> call["manual"].pc # "idle"
  /\ loop.pc = "wait" => call["manual"].emailId = loop.started[Len(loop.started)]
  /\ loop.pc = "returned" => IdsOf(loop.results) = loop.fetched

C24_Witness ==
  /\ loop.pc = "returned"
  /\ loop.fetched = <<"e1", "e2">>
  /\ Len(loop.results) = 2
  /\ ~loop.results[1].success
  /\ loop.results[2].success


\* C25: a cycle that fails ends like any other: the step that ends a cycle clears
\* isRunning and leaves the timer armed, a runBatchProcessing call made while
\* isRunning is false (the next tick) starts a cycle, and isRunning = true is
\* always followed by isRunning = false.
CycleEnds(i) == inv[i].pc # "free" /\ inv'[i].pc = "free"

C25_FailedCycleAbortsAlone ==
  /\ [][\A i \in Slots :
          CycleEnds(i) => /\ ~batchStats'.isRunning
                          /\ timers' >= timers
                          /\ batchInterval => batchInterval']_vars
  /\ [][lastRun'.n # lastRun.n /\ ~batchStats.isRunning
          => ~lastRun'.rejected /\ batchStats'.isRunning]_vars
  /\ (batchStats.isRunning ~> ~batchStats.isRunning)

\* A tick has started the second cycle after a first cycle that threw (its
\* statistics were not updated) and left the timer armed.
C25_Witness ==
  /\ batchStats.totalRuns = 2 /\ batchStats.isRunning
  /\ ~batchStats.lastRunTime
  /\ timers = 1 /\ batchInterval
  /\ \E s \in Slots : inv[s].kind = "tick" /\ inv[s].pc = "fetch"
  /\ \A s \in Slots : inv[s].kind \in {"tick", "none"}


\* C26: the 24-hour recency bound is applied to the startup cycle of every
\* startBatchProcessing and to no other cycle: no manual cycle and no timer
\* cycle after it queries with the bound.
C26_RecencyOnStartupOnly ==
  \A s \in Slots :
    /\ inv[s].kind = "start" => inv[s].isStartupRun
    /\ inv[s].kind = "manual" => ~inv[s].isStartupRun
    /\ inv[s].kind = "tick" /\ batchConfig.runOnStartup => ~inv[s].isStartupRun


\* C27: the list a batch cycle gets from its query holds no email that carries
\* TodoAgent_Processed or TodoAgent_Skip, and holds every email whose only
\* TodoAgent label is TodoAgent_Failed unless the cap is reached (each email at
\* most once).
Selected(i) == {inv'[i].emails[k] : k \in DOMAIN inv'[i].emails}

C27_CandidatesOfACycle ==
  [][\A i \in Slots :
       inv[i].pc = "fetch" /\ inv'[i].pc = "process"
       => /\ \A e \in Selected(i) :
               NamesOf(labelIds[e]) \cap {"TodoAgent_Processed", "TodoAgent_Skip"} = {}
          /\ \A e \in EmailIds :
               NamesOf(labelIds[e]) = {"TodoAgent_Failed"}
               => e \in Selected(i) \/ Len(inv'[i].emails) = inv[i].maxResults
          /\ Cardinality(Selected(i)) = Len(inv'[i].emails)
          /\ Len(inv'[i].emails) <= inv[i].maxResults]_vars

\* The second cycle has selected the email the first cycle left with
\* TodoAgent_Failed, and not the one that carries TodoAgent_Skip.
C27_Witness ==
  \E i \in Slots :
    /\ inv[i].pc = "process" /\ inv[i].emails = <<"e1">>
    /\ batchStats.totalRuns = 2
    /\ NamesOf(labelIds["e1"]) = {"TodoAgent_Failed"}
    /\ "TodoAgent_Skip" \in NamesOf(labelIds["e2"])


\* C28: processEmail calls that do not overlap and whose label writes all
\* succeed create at most one task for an email (the other half of the claim, two
\* overlapping calls that each create a task, is the state C28_TwoTasksByOverlap).
C28_SequentialCreatesAtMostOne ==
  ~writeFailed => \A e \in EmailIds : tasks[e] <= 1

\* The webhook's call and the loop's call on one email that carried no label when
\* each started are both in flight, no label write failed, and the email has two
\* tasks.
C28_TwoTasksByOverlap ==
  \E e \in EmailIds :
    /\ tasks[e] = 2 /\ ~writeFailed
    /\ \A c \in Callers : call[c].pc # "idle" /\ call[c].emailId = e /\ call[c].carried = {}



\* C29: the classification history never holds more than 1000 entries: it holds
\* the last min(1000, classifications recorded since the last clear) verdicts, in
\* the order they were recorded, so that on overflow the oldest are dropped.
C29_HistoryIsBounded ==
  LET h == classificationHistory
      shorter == IF classified.sinceClear < HistoryCapacity THEN classified.sinceClear
                                                            ELSE HistoryCapacity
  IN  /\ Len(h) <= HistoryCapacity
      /\ Len(h) = shorter
      /\ \A k \in DOMAIN h : h[k].timestamp = classified.total - Len(h) + k

\* A verdict was recorded in a full history: the history holds 1000 entries of
\* the more than 1000 recorded since the last clear, the newest being the verdict
\* of the last call.
C29_Witness ==
  /\ classified.sinceClear > HistoryCapacity
  /\ Len(classificationHistory) = HistoryCapacity
  /\ aiCall.n > 0 /\ ~aiCall.threw /\ aiCall.resp.failure = "none"
  /\ classificationHistory[HistoryCapacity].emailId = aiCall.emailId
  /\ classificationHistory[HistoryCapacity].classification = aiCall.verdict.suggestedLabel


\* C30: every verdict classifyEmail returns, whatever the language model
\* answers, has one of the five TodoAgent labels (an unknown label became
\* TodoAgent_Skip), a confidence within [0, 1], an urgency level (when it has one)
\* of low, medium or high, and task data only if it is actionable, with a
\* priority of 1 to 4 (2 by default) and a category of the enum (task by default).
C30_VerdictIsNormalised ==
  aiCall.n > 0 /\ ~aiCall.threw
  => LET v == aiCall.verdict
         raw == aiCall.resp
     IN  /\ listIncludes(validLabels, v.suggestedLabel)
         /\ raw.failure = "none" /\ ~listIncludes(validLabels, raw.suggestedLabel)
            => v.suggestedLabel = "TodoAgent_Skip"
         /\ v.confidence \in 0..1000
         /\ v.urgencyLevel # "none" => listIncludes(urgencyLevels, v.urgencyLevel)
         /\ v.taskData.present => v.isActionable
         /\ v.taskData.present
            => /\ v.taskData.priority \in 1..4
               /\ raw.taskData.priority \notin 1..4 => v.taskData.priority = 2
               /\ listIncludes(categories, v.taskData.category)
               /\ ~listIncludes(categories, raw.taskData.category)
                  => v.taskData.category = "task"

\* A verdict came back for an answer with an unknown label, a confidence above 1,
\* an unknown urgency level, and task data with a priority out of range and an
\* unknown category.
C30_Witness ==
  /\ aiCall.n > 0 /\ ~aiCall.threw
  /\ aiCall.resp.failure = "none"
  /\ aiCall.resp.suggestedLabel = "Inbox"
  /\ aiCall.resp.confidence = [isNumber |-> TRUE, value |-> 1500]
  /\ aiCall.resp.urgencyLevel = "soon"
  /\ aiCall.resp.isActionable /\ aiCall.resp.taskData.present
  /\ aiCall.resp.taskData.priority = 9 /\ aiCall.resp.taskData.category = "memo"
  /\ aiCall.verdict.taskData.present
  /\ aiCall.verdict.taskData.priority = 2 /\ aiCall.verdict.taskData.category = "task"
  /\ aiCall.verdict.suggestedLabel = "TodoAgent_Skip"
  /\ aiCall.verdict.confidence = 1000 /\ aiCall.verdict.urgencyLevel = "low"


\* C31: classifyEmails returns one verdict per input email, result k being the
\* verdict of email k whatever the order in which the calls of a group completed;
\* the calls are issued in groups of at most 5 emails in input order, and a group
\* is issued only after every call of the groups before it has completed.
C31_GroupsInOrder ==
  LET c == classifying
      done == {c.completed[j] : j \in DOMAIN c.completed}
  IN  /\ c.pc = "returned"
         => /\ Len(c.results) = Len(c.emails)
            /\ \A k \in DOMAIN c.emails :
                 c.results[k] = classifyEmail(getEmailById(c.emails[k]), c.resps[k])
      /\ \A g \in DOMAIN c.issued :
           /\ Cardinality(c.issued[g]) <= batchSize
           /\ c.issued[g] = {k \in DOMAIN c.emails :
                               (g - 1) * batchSize < k /\ k <= g * batchSize}
           /\ g < Len(c.issued) => c.issued[g] \subseteq done
      /\ IF c.issued = <<>> THEN c.pending = {}
                            ELSE c.pending \subseteq c.issued[Len(c.issued)]

\* classifyEmails returned six verdicts of which the second was the first to
\* arrive, and the sixth call was issued after the five of the first group.
C31_Witness ==
  /\ classifying.pc = "returned"
  /\ Len(classifying.results) = 6
  /\ classifying.completed[1] = 2 /\ classifying.completed[5] = 1
  /\ classifying.completed[6] = 6
  /\ classifying.results[1] # classifying.results[2]
  /\ aiCall.resp.failure = "none"


C33_ProcessedMeansTask ==
  /\ [](\A e \in EmailIds :
          "TodoAgent_Processed" \in NamesOf(labelIds[e]) => tasks[e] >= 1)
  /\ [][\A c \in Callers :
          "TodoAgent_Processed" \in call'[c].attempted \ call[c].attempted
          => call[c].created >= 1 /\ tasks[call[c].emailId] >= 1]_vars

\* A call created a task for its email and the email carries TodoAgent_Processed.
C33_Witness ==
  \E c \in Callers :
    /\ call[c].pc = "done" /\ call[c].created = 1
    /\ "TodoAgent_Processed" \in call[c].wrote
    /\ "TodoAgent_Processed" \in NamesOf(labelIds[call[c].emailId])
    /\ tasks[call[c].emailId] = 1


\* C34: no processEmail call both creates a task for its email and applies
\* TodoAgent_Skip to it, and no email carries both TodoAgent_Skip and
\* TodoAgent_Processed.
C34_NoTaskWithSkip ==
  /\ \A c \in Callers : ~(call[c].created >= 1 /\ "TodoAgent_Skip" \in call[c].wrote)
  /\ \A e \in EmailIds :
       ~({"TodoAgent_Skip", "TodoAgent_Processed"} \subseteq NamesOf(labelIds[e]))


\* C35: once every fetch, task creation and label write succeeds, an email
\* without a terminal label that a cycle is about to handle, or that an armed
\* timer with a run left will trigger a cycle for, eventually carries
\* TodoAgent_Processed or TodoAgent_Skip; an email that carries one keeps it, is
\* never selected by a cycle again and is never processed by a cycle again.
TerminalOn(e) == NamesOf(labelIds[e]) \cap Terminal # {}

Awaited(e) ==
  \/ \E i \in Slots : inv[i].pc = "fetch"
  \/ \E i \in Slots : inv[i].pc = "process"
                      /\ \E k \in DOMAIN inv[i].emails : inv[i].emails[k] = e
  \/ timers > 0 /\ ~batchStats.isRunning /\ lastRun.n < MaxRuns

C36_OneTimer ==
  /\ timers <= 1
  /\ ~batchInterval => timers = 0


\* C37: batchStats.totalTasksCreated is the number of tasks created for
\* messages processed inside batch cycles, whatever the webhook's processEmail
\* calls and resetProcessingStats do in between: once no cycle is in flight the
\* two numbers are equal (a task the webhook created is not counted), and the
\* total never decreases.
C37_CountsBatchTasksOnly ==
  /\ []((\A i \in Slots : inv[i].pc = "free")
          => batchStats.totalTasksCreated = batchCreated)
  /\ [][batchStats'.totalTasksCreated >= batchStats.totalTasksCreated]_vars


\* C38: under any interleaving of processEmail calls and resetProcessingStats,
\* the outcome counters never exceed the number of calls counted:
\* tasksCreated + skipped + failed <= totalProcessed in every reachable state.
C38_OutcomesWithinTotal ==
  processingStats.tasksCreated + processingStats.skipped + processingStats.failed
    <= processingStats.totalProcessed


\* C39: a processEmail call that returns success = false increments
\* processingStats.failed by exactly 1 as it returns, and a call that returns
\* success = true leaves the counter unchanged.
C39_FailedCountsFailures ==
  [][\A c \in Callers :
       (call[c].pc # "done" /\ call'[c].pc = "done")
         => processingStats'.failed
              = processingStats.failed + (IF call'[c].result.success THEN 0 ELSE 1)]_vars

=============================================================================
